---- MODULE Spec2Model ----
(***************************************************************************)
(* LiveSpeak: adaptive edge/cloud routing and caption fusion pipeline.     *)
(*                                                                         *)
(* Three specifications over one set of variables:                         *)
(*   SpecChunker  AudioChunker used on its own (core/chunker.py)           *)
(*   SpecRouter   Router used on its own (core/router.py)                  *)
(*   Spec         the server pipeline (server.py): capture callback,       *)
(*                event loop, one task per chunk, stop_capture             *)
(*                                                                         *)
(* Scores and confidences are fixed-point hundredths: 75 stands for 0.75. *)
(***************************************************************************)
EXTENDS Integers, Sequences, FiniteSets, TLC

(* ------------------------------ bounds --------------------------------- *)

\* samples per chunk (AudioChunker.chunk_size, scaled down)
ChunkSize == 3

\* longest frame handed to add_audio in SpecChunker
MaxFrame == 6

\* samples pushed in one run of SpecChunker
MaxSamples == 8

\* add_audio calls in one run of SpecChunker
MaxPushes == 4

\* flush calls in one run of SpecChunker
MaxFlush == 2

\* decide_routing calls in one run of SpecRouter
MaxDecisions == 2

\* chunks produced in one run of Spec (the pipeline)
MaxChunks == 2

\* merge_captions calls in one run of SpecMerger (more than max_history)
MaxMerges == 102

\* WebSocket connections in one run of SpecSink
MaxSubscribers == 2

\* broadcast_caption calls in one run of SpecSink
MaxBroadcasts == 1

\* sessions started in one run of SpecControl
MaxSessions == 6

\* estimate_confidence calls in one run of SpecConfidence, estimate_noise
\* calls in one run of SpecNoise (more than window_size)
MaxScorerCalls == 11

(* ------------------------- program constants --------------------------- *)

\* the literals decide_routing compares against
ConfidenceCutoff == 75
NoiseCutoff == 60

\* ConfidenceConfig.min_confidence_threshold and NoiseConfig.noise_threshold
DefaultConfidenceThreshold == 75
DefaultNoiseThreshold == 60

\* CaptionMerger.max_history
MaxHistory == 100

\* merge_captions calls of a run of get_history calls
MaxHistoryCalls == 3

\* get_history(self, limit: int = 50)
DefaultHistoryLimit == 50

\* the estimators' figures in ten-thousandths: 10000 is 1.0
One == 10000

\* window_size of both estimators
WindowSize == 10

\* alpha of the confidence smoothing, in tenths
SmoothingAlpha == 3

\* NoiseConfig.rms_threshold and NoiseConfig.zcr_threshold, in ten-thousandths
RmsThreshold == 200
ZcrThreshold == 1000

(* --------------------------- input domains ----------------------------- *)

\* confidence and noise scores handed to decide_routing, around the cut-offs
ConfValues == {0, 50, 74, 75, 76, 100}
NoiseValues == {0, 59, 60, 61, 100}

\* configurations a Router is constructed with
ConfidenceThresholds == {50, DefaultConfidenceThreshold}
NoiseThresholds == {DefaultNoiseThreshold, 80}

\* what one chunk gives the pipeline: the (text, confidence) EdgeASR.transcribe
\* returns for it, ("", 0.0) on an exception, and the scores the two
\* estimators compute for it (estimate_confidence returns 0.0 for no text)
ChunkInputs ==
    {[e |-> [text |-> "hi", conf |-> 80], confidence |-> 75, noise |-> 60],
     [e |-> [text |-> "hi", conf |-> 50], confidence |-> 50, noise |-> 30],
     [e |-> [text |-> "", conf |-> 0], confidence |-> 0, noise |-> 70]}

\* how a dispatched cloud call ends, and the confidence of a cloud result:
\* 0.9, or the mean of 1 - no_speech_prob over the segments
CloudOutcomes == {"ok", "empty", "timeout", "error"}
CloudConfs == {10, 90}

\* the results told apart: process_audio_chunk and merge_captions read the
\* confidence of a cloud result only when its text is not empty
CloudResults ==
    {r \in CloudOutcomes \X CloudConfs : r[1] = "ok" \/ r[2] = 90}

VARIABLES
    \* server.py globals
    is_capturing,
    audio_capture,     \* "none" or "obj": the AudioCapture the global refers to
    leaked,            \* a started stream that no global refers to any more
    internet_available,
    cloud_client,      \* CloudASR.client is not None
    \* the event loop
    readyq,            \* tasks handed over by call_soon_threadsafe, not yet run
    tasks,             \* one record per chunk, by sequence number
    stop_pc,           \* "idle", or "await": stop_capture awaits the flush chunk
    \* CaptionMerger
    history,
    current_caption,
    \* observation
    delivered,         \* broadcast_caption calls, in order
    inflightAtStop,    \* chunks whose cloud call was pending at the last stop_capture
    \* SystemConfig (config.py), fixed at construction
    config,
    \* Router
    stats,             \* Router.stats
    decision,          \* the dict the last decide_routing call returned
    \* AudioChunker
    buffer,            \* deque of frames, each a sequence of samples
    buffered_samples,  \* AudioChunker.buffered_samples
    \* observation of the chunker's callers
    pushed,            \* number of samples handed to add_audio so far
    pushes,            \* number of add_audio calls so far
    outChunks,         \* every chunk returned by add_audio / flush, in order
    lastOp,            \* the last chunker call: what it was given and returned
    hung,              \* add_audio is spinning in its while loop
    flushes            \* number of flush calls so far

chunkerVars ==
    <<buffer, buffered_samples, pushed, pushes, outChunks, lastOp, hung, flushes>>

(* ------------------------------ helpers -------------------------------- *)

\* the samples numbered a+1 .. a+n: sample k is the k-th sample captured
Samples(a, n) == [i \in 1..n |-> a + i]

RECURSIVE Flatten(_)
Flatten(frames) ==
    IF frames = <<>> THEN <<>> ELSE Head(frames) \o Flatten(Tail(frames))

(* ---------------------------- AudioChunker ----------------------------- *)

\* the inner while loop of _extract_chunk: pop frames from the left while
\* the chunk is short and the buffer is non-empty
RECURSIVE PopWhileShort(_, _)
PopWhileShort(chunk, buf) ==
    IF Len(chunk) < ChunkSize /\ buf # <<>>
    THEN PopWhileShort(chunk \o Head(buf), Tail(buf))
    ELSE [chunk |-> chunk, buf |-> buf]

\* _extract_chunk: found = TRUE with the chunk, or found = FALSE (None) with
\* whatever was popped put back at the left as one frame
ExtractChunk(buf) ==
    LET p == PopWhileShort(<<>>, buf) IN
    IF Len(p.chunk) = ChunkSize
    THEN [found |-> TRUE, chunk |-> p.chunk, buf |-> p.buf]
    ELSE [found |-> FALSE, chunk |-> <<>>,
          buf |-> IF Len(p.chunk) > 0 THEN <<p.chunk>> \o p.buf ELSE p.buf]

\* the while loop of add_audio. An iteration in which _extract_chunk returns
\* None and leaves the buffer as it found it repeats forever: spins = TRUE.
RECURSIVE AddAudioLoop(_, _, _)
AddAudioLoop(buf, n, chunks) ==
    IF n < ChunkSize
    THEN [buf |-> buf, n |-> n, chunks |-> chunks, spins |-> FALSE]
    ELSE LET r == ExtractChunk(buf) IN
         IF r.found
         THEN AddAudioLoop(r.buf, n - ChunkSize, Append(chunks, r.chunk))
         ELSE IF r.buf = buf
              THEN [buf |-> buf, n |-> n, chunks |-> chunks, spins |-> TRUE]
              ELSE AddAudioLoop(r.buf, n, chunks)

\* add_audio(audio) on chunker state (buf, n)
AddAudio(buf, n, audio) ==
    AddAudioLoop(Append(buf, audio), n + Len(audio), <<>>)

FlushDropLast(buf, n) ==
    IF n = 0
    THEN [buf |-> buf, n |-> n, ret |-> <<>>]
    ELSE LET chunk == Flatten(SubSeq(buf, 1, Len(buf) - 1)) IN
         [buf |-> <<>>, n |-> 0,
          ret |-> IF Len(chunk) > 0 THEN <<chunk>> ELSE <<>>]

FlushKeepsBacklog(buf, n) ==
    IF n = 0
    THEN [buf |-> buf, n |-> n, ret |-> <<>>]
    ELSE LET chunk == Flatten(buf) IN
         [buf |-> buf, n |-> n,
          ret |-> IF Len(chunk) > 0 THEN <<chunk>> ELSE <<>>]

\* flush(): ret is <<>> for None, <<chunk>> otherwise
Flush(buf, n) ==
    IF n = 0
    THEN [buf |-> buf, n |-> n, ret |-> <<>>]
    ELSE LET chunk == Flatten(buf) IN
         [buf |-> <<>>, n |-> 0,
          ret |-> IF Len(chunk) > 0 THEN <<chunk>> ELSE <<>>]

NoOp ==
    [op |-> "none", after |-> "none", len |-> 0, backlog |-> 0, ret |-> <<>>,
     returned |-> TRUE]

InitChunkerVars ==
    /\ buffer = <<>>
    /\ buffered_samples = 0
    /\ pushed = 0
    /\ pushes = 0
    /\ outChunks = <<>>
    /\ lastOp = NoOp
    /\ hung = FALSE
    /\ flushes = 0

\* a caller pushes a frame of m fresh samples
Push(m) ==
    /\ ~hung
    /\ pushes < MaxPushes
    /\ pushed + m <= MaxSamples
    /\ LET r == AddAudio(buffer, buffered_samples, Samples(pushed, m)) IN
       /\ buffer' = r.buf
       /\ buffered_samples' = r.n
       /\ hung' = r.spins
       /\ outChunks' = IF r.spins THEN outChunks ELSE outChunks \o r.chunks
       /\ lastOp' = [op |-> "push", after |-> lastOp.op, len |-> m, backlog |-> buffered_samples,
                     ret |-> IF r.spins THEN <<>> ELSE r.chunks,
                     returned |-> ~r.spins]
    /\ pushed' = pushed + m
    /\ pushes' = pushes + 1
    /\ UNCHANGED flushes

\* a caller flushes
DoFlush ==
    /\ ~hung
    /\ flushes < MaxFlush
    /\ LET r == Flush(buffer, buffered_samples) IN
       /\ buffer' = r.buf
       /\ buffered_samples' = r.n
       /\ outChunks' = outChunks \o r.ret
       /\ lastOp' = [op |-> "flush", after |-> lastOp.op, len |-> 0, backlog |-> buffered_samples,
                     ret |-> r.ret, returned |-> TRUE]
    /\ flushes' = flushes + 1
    /\ UNCHANGED <<pushed, pushes, hung>>

(* ------------------------------- Router -------------------------------- *)

routerVars == <<config, stats, decision>>

ZeroStats ==
    [total_chunks |-> 0, edge_only |-> 0, routed_to_cloud |-> 0,
     cloud_succeeded |-> 0, cloud_failed |-> 0, cloud_timeout |-> 0,
     no_internet |-> 0]

NoDecision ==
    [use_cloud |-> FALSE, reason |-> "none", confidence |-> 0, noise_score |-> 0,
     internet_available |-> FALSE]

LowConfidenceInclusive(confidence) == confidence <= ConfidenceCutoff

\* low_confidence = confidence < 0.75
LowConfidence(confidence) == confidence < ConfidenceCutoff

HighNoiseInclusive(noise_score) == noise_score >= NoiseCutoff

\* high_noise = noise_score > 0.6
HighNoise(noise_score) == noise_score > NoiseCutoff

\* the reason decide_routing settles on
RoutingReason(low_confidence, high_noise, internet, enable_cloud_asr) ==
    IF (low_confidence \/ high_noise) /\ internet
    THEN IF ~enable_cloud_asr THEN "cloud_disabled"
         ELSE IF low_confidence /\ high_noise THEN "low_confidence_and_high_noise"
         ELSE IF low_confidence THEN "low_confidence"
         ELSE IF high_noise THEN "high_noise"
         ELSE "edge_only"
    ELSE IF ~internet THEN "no_internet"
         ELSE IF ~low_confidence /\ ~high_noise THEN "edge_sufficient"
         ELSE "edge_only"

UseCloudIgnoresInternet(low_confidence, high_noise, internet, enable_cloud_asr) == (low_confidence \/ high_noise) /\ enable_cloud_asr

\* use_cloud as decide_routing settles it
UseCloud(low_confidence, high_noise, internet, enable_cloud_asr) == (low_confidence \/ high_noise) /\ internet /\ enable_cloud_asr

CountDecisionOfflineApart(st, use_cloud, internet) == IF internet THEN [st EXCEPT !.total_chunks = @ + 1, !.edge_only = @ + 1] ELSE [st EXCEPT !.total_chunks = @ + 1, !.no_internet = @ + 1]

\* the counters decide_routing updates: total_chunks first, then
\* routed_to_cloud, or edge_only and with it no_internet
CountDecision(st, use_cloud, internet) ==
    LET st1 == [st EXCEPT !.total_chunks = @ + 1]
    IN IF use_cloud
       THEN [st1 EXCEPT !.routed_to_cloud = @ + 1]
       ELSE [st1 EXCEPT !.edge_only = @ + 1,
                        !.no_internet = IF internet THEN @ ELSE @ + 1]

DecideRoutingSticky(st, cfg, confidence, noise_score, internet) == LET low_confidence == LowConfidence(confidence) high_noise == HighNoise(noise_score) use_cloud == UseCloud(low_confidence, high_noise, internet, cfg.enable_cloud_asr) \/ (st.routed_to_cloud > 0 /\ internet /\ cfg.enable_cloud_asr) reason == RoutingReason(low_confidence, high_noise, internet, cfg.enable_cloud_asr) IN [stats |-> CountDecision(st, use_cloud, internet), decision |-> [use_cloud |-> use_cloud, reason |-> reason, confidence |-> confidence, noise_score |-> noise_score, internet_available |-> internet]]

\* decide_routing(confidence, noise_score, internet) on a Router
\* with counters st and configuration cfg: the new counters and the decision
DecideRouting(st, cfg, confidence, noise_score, internet) ==
    LET low_confidence == LowConfidence(confidence)
        high_noise == HighNoise(noise_score)
        use_cloud == UseCloud(low_confidence, high_noise, internet,
                              cfg.enable_cloud_asr)
        reason == RoutingReason(low_confidence, high_noise, internet,
                                cfg.enable_cloud_asr)
    IN [stats |-> CountDecision(st, use_cloud, internet),
        decision |-> [use_cloud |-> use_cloud, reason |-> reason,
                      confidence |-> confidence, noise_score |-> noise_score,
                      internet_available |-> internet]]

RecordCloudResultTimeoutApart(st, success, timeout) == IF timeout THEN [st EXCEPT !.cloud_timeout = @ + 1] ELSE IF success THEN [st EXCEPT !.cloud_succeeded = @ + 1] ELSE [st EXCEPT !.cloud_failed = @ + 1]

\* record_cloud_result(success, timeout)
RecordCloudResult(st, success, timeout) ==
    IF timeout
    THEN [st EXCEPT !.cloud_timeout = @ + 1, !.cloud_failed = @ + 1]
    ELSE IF success
         THEN [st EXCEPT !.cloud_succeeded = @ + 1]
         ELSE [st EXCEPT !.cloud_failed = @ + 1]

Configs ==
    [enable_cloud_asr : BOOLEAN,
     min_confidence_threshold : ConfidenceThresholds,
     noise_threshold : NoiseThresholds,
     blocksize : {ChunkSize}]

InitRouterVars ==
    /\ stats = ZeroStats
    /\ decision = NoDecision

\* a caller asks the Router for a decision
Decide(confidence, noise_score, internet) ==
    /\ stats.total_chunks < MaxDecisions
    /\ LET d == DecideRouting(stats, config, confidence, noise_score,
                              internet) IN
       /\ stats' = d.stats
       /\ decision' = d.decision
    /\ UNCHANGED config

\* a caller records the outcome of a cloud call
Record(success, timeout) ==
    /\ stats.cloud_succeeded + stats.cloud_failed < MaxDecisions
    /\ stats' = RecordCloudResult(stats, success, timeout)
    /\ UNCHANGED <<config, decision>>

\* reset_stats()
ResetStats ==
    /\ stats # ZeroStats
    /\ stats' = ZeroStats
    /\ UNCHANGED <<config, decision>>

\* round((part / whole) * 100, 2), in hundredths of a percent
Percentage(part, whole) == (2 * 10000 * part + whole) \div (2 * whole)

GetStatsRatePerOutcome(st) == [counters |-> st, edge_percentage |-> IF st.total_chunks = 0 THEN 0 ELSE Percentage(st.edge_only, st.total_chunks), cloud_percentage |-> IF st.total_chunks = 0 THEN 0 ELSE Percentage(st.routed_to_cloud, st.total_chunks), cloud_success_rate |-> IF st.cloud_succeeded + st.cloud_failed = 0 THEN 0 ELSE Percentage(st.cloud_succeeded, st.cloud_succeeded + st.cloud_failed)]

\* get_stats(): the counters and the three derived figures
GetStats(st) ==
    IF st.total_chunks = 0
    THEN [counters |-> st, edge_percentage |-> 0, cloud_percentage |-> 0,
          cloud_success_rate |-> 0]
    ELSE [counters |-> st,
          edge_percentage |-> Percentage(st.edge_only, st.total_chunks),
          cloud_percentage |-> Percentage(st.routed_to_cloud, st.total_chunks),
          cloud_success_rate |->
              IF st.routed_to_cloud > 0
              THEN Percentage(st.cloud_succeeded, st.routed_to_cloud)
              ELSE 0]

(* ---------------------------- CaptionMerger ---------------------------- *)

NoCaption == [text |-> "", source |-> "none", confidence |-> 0, noise_score |-> 0]

\* Python's None where a text is expected
None == "<None>"

\* `not cloud_text`: None and the empty string are both falsy
NoText(text) == text \in {None, ""}

MergeCaptionsDeltaOnly(edge_text, edge_confidence, cloud_text, cloud_confidence, noise_score) ==
    IF ~NoText(cloud_text) /\ cloud_confidence - edge_confidence > 15
    THEN [text |-> cloud_text, source |-> "cloud",
          confidence |-> cloud_confidence, noise_score |-> noise_score]
    ELSE [text |-> edge_text, source |-> "edge",
          confidence |-> edge_confidence, noise_score |-> noise_score]

MergeCaptionsIgnoringEmpty(edge_text, edge_confidence, cloud_text, cloud_confidence, noise_score) ==
    IF \/ cloud_confidence - edge_confidence > 15
       \/ (edge_confidence < 60 /\ cloud_confidence > 70)
    THEN [text |-> cloud_text, source |-> "cloud",
          confidence |-> cloud_confidence, noise_score |-> noise_score]
    ELSE [text |-> edge_text, source |-> "edge",
          confidence |-> edge_confidence, noise_score |-> noise_score]

\* the Caption merge_captions builds (None and "" both count as no cloud text)
MergeCaptions(edge_text, edge_confidence, cloud_text, cloud_confidence, noise_score) ==
    IF NoText(cloud_text)
    THEN [text |-> edge_text, source |-> "edge",
          confidence |-> edge_confidence, noise_score |-> noise_score]
    ELSE IF \/ cloud_confidence - edge_confidence > 15
            \/ (edge_confidence < 60 /\ cloud_confidence > 70)
         THEN [text |-> cloud_text, source |-> "cloud",
               confidence |-> cloud_confidence, noise_score |-> noise_score]
         ELSE [text |-> edge_text, source |-> "edge",
               confidence |-> edge_confidence, noise_score |-> noise_score]

AppendHistoryOverLast(h, caption) == IF h = <<>> THEN <<caption>> ELSE [h EXCEPT ![Len(h)] = caption]

AppendHistoryEvictsNewest(h, caption) ==
    IF Len(h) >= MaxHistory THEN h ELSE Append(h, caption)

\* history.append(caption), then pop(0) once over max_history
AppendHistory(h, caption) ==
    LET h1 == Append(h, caption) IN
    IF Len(h1) > MaxHistory THEN Tail(h1) ELSE h1

\* the arguments of a merge_captions call: a cloud text of None comes with a
\* cloud confidence of None, which is never looked at (0 stands for it)
MergeInputs ==
    [edge_text : {"", "hi"}, edge_confidence : {50, 59, 60, 75},
     cloud_text : {"", "hi there"}, cloud_confidence : {0, 70, 71, 75, 76, 90},
     noise_score : {30}]
    \cup [edge_text : {"", "hi"}, edge_confidence : {50, 59, 60, 75},
          cloud_text : {None}, cloud_confidence : {0}, noise_score : {30}]

VARIABLES
    merge_arg,         \* the arguments the merge_captions calls of a run are given
    merges,            \* number of merge_captions calls so far: the clock
    history_out        \* the last get_history call: its limit, what it returned

mergerVars == <<merge_arg, merges, history_out>>

NoHistoryOut == [limit |-> 0, captions |-> <<>>]

\* a Caption with its timestamp
Stamped(caption, timestamp) ==
    [text |-> caption.text, source |-> caption.source,
     confidence |-> caption.confidence, noise_score |-> caption.noise_score,
     timestamp |-> timestamp]

InitMergerVars ==
    /\ merge_arg = [edge_text |-> "", edge_confidence |-> 0, cloud_text |-> None,
                    cloud_confidence |-> 0, noise_score |-> 0]
    /\ merges = 0
    /\ history_out = NoHistoryOut

\* merge_captions(edge_text, ..., timestamp = now): the caption becomes the
\* current one and goes to the end of the history
MergeCall ==
    /\ merges < MaxMerges
    /\ LET caption == Stamped(MergeCaptions(merge_arg.edge_text,
                                            merge_arg.edge_confidence,
                                            merge_arg.cloud_text,
                                            merge_arg.cloud_confidence,
                                            merge_arg.noise_score),
                              merges + 1)
       IN /\ current_caption' = caption
          /\ history' = AppendHistory(history, caption)
    /\ merges' = merges + 1
    /\ UNCHANGED <<merge_arg, history_out>>

\* the Python slice h[-limit:] for limit >= 0: it starts limit places before
\* the end, at the first place when there are fewer, and -0 is 0, the first
\* place as well
GetHistory(h, limit) ==
    LET start == IF limit = 0 \/ limit >= Len(h) THEN 0 ELSE Len(h) - limit
    IN SubSeq(h, start + 1, Len(h))

\* get_history(limit)
GetHistoryCall(limit) ==
    /\ history_out' = [limit |-> limit, captions |-> GetHistory(history, limit)]
    /\ UNCHANGED <<merge_arg, merges, history, current_caption>>

(* ------------------------------ CloudASR ------------------------------- *)

\* what CloudASR.transcribe returns when its API call ends as `outcome`:
\* the stripped text with its confidence, or ("", 0.0) on a timeout, on any
\* other exception and when no client is configured
CloudTranscribe(outcome, conf) ==
    IF outcome = "ok" THEN [text |-> "hi there", conf |-> conf]
    ELSE IF outcome = "empty" THEN [text |-> "", conf |-> conf]
    ELSE [text |-> "", conf |-> 0]

(* ------------------------- server.py pipeline -------------------------- *)

pipeVars ==
    <<is_capturing, audio_capture, leaked, internet_available,
      cloud_client, readyq, tasks, stop_pc, history, current_caption, delivered,
      inflightAtStop>>


\* caption.text.strip() on the texts the engines return ("", "hi",
\* "hi there") and on a blank one
Strip(text) == IF text = " " THEN "" ELSE text

NoCloud == [text |-> "", conf |-> 0]

NewTaskStarted ==
    [pc |-> "edge", edge |-> [text |-> "", conf |-> 0], confidence |-> 0,
     noise |-> 0, use_cloud |-> FALSE, outcome |-> "none",
     cloud |-> [text |-> "", conf |-> 0], jargon_saved |-> FALSE,
     caption |-> NoCaption]

\* the coroutine object audio_callback and stop_capture create for a chunk:
\* nothing of it has run yet
NewTask ==
    [pc |-> "queued", edge |-> [text |-> "", conf |-> 0], confidence |-> 0,
     noise |-> 0, use_cloud |-> FALSE, outcome |-> "none", cloud |-> NoCloud,
     jargon_saved |-> FALSE, caption |-> NoCaption]

LoopBusyWhileCloud == \E q \in 1..Len(tasks) : tasks[q].pc \in {"edge", "cloud"}

\* the event loop's thread is inside edge_asr.transcribe, which
\* process_audio_chunk calls directly: nothing else the loop has to run
\* (tasks, request handlers, the connectivity poller) runs until it returns
LoopBusy == \E q \in 1..Len(tasks) : tasks[q].pc = "edge"

FuseDropsBlank(seq, tsk, t) == LET caption == MergeCaptions(t.edge.text, t.edge.conf, t.cloud.text, t.cloud.conf, t.noise) IN IF Strip(caption.text) = "" THEN tasks' = [tsk EXCEPT ![seq] = [t EXCEPT !.pc = "done"]] /\ UNCHANGED <<current_caption, history, delivered>> ELSE current_caption' = caption /\ history' = AppendHistory(history, caption) /\ delivered' = Append(delivered, [seq |-> seq, caption |-> caption]) /\ tasks' = [tsk EXCEPT ![seq] = [t EXCEPT !.caption = caption, !.pc = "done"]]

\* process_audio_chunk, steps 6 and 7, for the task record t of chunk seq:
\* merge, then broadcast when the caption has text. With no session active
\* and no subscriber connected, as here, broadcast_caption awaits nothing
\* and the task runs to its end.
Fuse(seq, tsk, t) ==
    LET caption == MergeCaptions(t.edge.text, t.edge.conf, t.cloud.text,
                                 t.cloud.conf, t.noise)
        send == Strip(caption.text) # ""
    IN /\ current_caption' = caption
       /\ history' = AppendHistory(history, caption)
       /\ delivered' = IF send
                       THEN Append(delivered, [seq |-> seq, caption |-> caption])
                       ELSE delivered
       /\ tasks' = [tsk EXCEPT ![seq] = [t EXCEPT !.caption = caption,
                                                  !.pc = "done"]]

\* process_audio_chunk from its start to its first suspension, for chunk seq
\* of the task list tsk: edge transcription e, scores sc, routing decision,
\* then either the cloud call is dispatched or the caption is fused at once
ProcessStart(seq, tsk, e, confidence, noise) ==
    LET d == DecideRouting(stats, config, confidence, noise, internet_available)
        t == [tsk[seq] EXCEPT !.edge = e, !.noise = noise,
                              !.confidence = confidence,
                              !.use_cloud = d.decision.use_cloud]
    IN /\ decision' = d.decision
       /\ IF d.decision.use_cloud
          THEN IF cloud_client
               THEN /\ stats' = d.stats
                    /\ tasks' = [tsk EXCEPT ![seq] = [t EXCEPT !.pc = "cloud"]]
                    /\ UNCHANGED <<history, current_caption, delivered>>
               ELSE /\ stats' = RecordCloudResult(d.stats, FALSE, FALSE)
                    /\ Fuse(seq, tsk,
                            [t EXCEPT !.outcome = "unavailable",
                                      !.cloud = CloudTranscribe("unavailable", 0)])
          ELSE /\ stats' = d.stats
               /\ Fuse(seq, tsk, t)

\* POST /capture/start: a new AudioCapture is started. One the global still
\* refers to (stop_capture is awaiting its flush chunk) is left running.
StartCapture ==
    /\ ~LoopBusy
    /\ ~is_capturing
    /\ is_capturing' = TRUE
    /\ audio_capture' = "obj"
    /\ leaked' = (leaked \/ audio_capture = "obj")
    /\ inflightAtStop' = {}
    /\ UNCHANGED <<internet_available, cloud_client, readyq, tasks, stop_pc,
                   history, current_caption, delivered,
                   routerVars, chunkerVars>>

\* audio_callback on the capture thread: one frame of the stream's blocksize.
\* The pipeline does not look into the samples, so a frame is numbered by
\* its place in the backlog; a chunk's sequence number is its place in tasks.
AudioCallback ==
    /\ (audio_capture = "obj" \/ leaked)
    /\ ~hung
    /\ is_capturing
    /\ Len(tasks) < MaxChunks
    /\ LET r == AddAudio(buffer, buffered_samples,
                         Samples(buffered_samples, config.blocksize))
           new == IF r.spins THEN <<>> ELSE r.chunks
       IN /\ buffer' = r.buf
          /\ buffered_samples' = r.n
          /\ hung' = r.spins
          /\ readyq' = readyq \o [i \in 1..Len(new) |-> Len(tasks) + i]
          /\ tasks' = tasks \o [i \in 1..Len(new) |-> NewTask]
    /\ UNCHANGED <<pushed, pushes, outChunks, lastOp, flushes, is_capturing,
                   audio_capture, leaked, internet_available, cloud_client,
                   stop_pc, history, current_caption, delivered, inflightAtStop,
                   routerVars>>

\* the event loop runs the oldest task handed over: process_audio_chunk
\* enters edge_asr.transcribe
TaskBegin ==
    /\ ~LoopBusy
    /\ readyq # <<>>
    /\ readyq' = Tail(readyq)
    /\ tasks' = [tasks EXCEPT ![Head(readyq)].pc = "edge"]
    /\ UNCHANGED <<is_capturing, audio_capture, leaked, internet_available,
                   cloud_client, stop_pc, history, current_caption, delivered,
                   inflightAtStop, routerVars, chunkerVars>>

\* edge_asr.transcribe returns; process_audio_chunk runs on to its first
\* suspension
TaskStart(in) ==
    /\ \E seq \in 1..Len(tasks) :
          /\ tasks[seq].pc = "edge"
          /\ ProcessStart(seq, tasks, in.e, in.confidence, in.noise)
    /\ UNCHANGED <<is_capturing, audio_capture, leaked, readyq,
                   internet_available, cloud_client, stop_pc, inflightAtStop,
                   config, chunkerVars>>

\* the cloud call of chunk seq ends; process_audio_chunk records the outcome
\* and goes on to the jargon save or to the merge
CloudReturn(seq, outcome, conf) ==
    /\ ~LoopBusy
    /\ seq \in 1..Len(tasks)
    /\ tasks[seq].pc = "cloud"
    /\ LET r == CloudTranscribe(outcome, conf)
           t == [tasks[seq] EXCEPT !.outcome = outcome, !.cloud = r]
       IN IF r.text # ""
          THEN /\ stats' = RecordCloudResult(stats, TRUE, FALSE)
               /\ IF r.conf > t.edge.conf
                  THEN /\ tasks' = [tasks EXCEPT ![seq] = [t EXCEPT !.pc = "jargon"]]
                       /\ UNCHANGED <<history, current_caption, delivered>>
                  ELSE Fuse(seq, tasks, t)
          ELSE /\ stats' = RecordCloudResult(stats, FALSE, FALSE)
               /\ Fuse(seq, tasks, t)
    /\ UNCHANGED <<is_capturing, audio_capture, leaked,
                   internet_available, cloud_client, readyq, stop_pc,
                   inflightAtStop, config, decision, chunkerVars>>

StatsAfterJargonRaising(st, saved) == IF saved THEN st ELSE RecordCloudResult(st, FALSE, FALSE)

\* the counters once save_jargon_pair_async has returned: a failure of the
\* write is caught and logged in _save_jargon_pair_sync, so nothing reaches
\* the except clause of process_audio_chunk
StatsAfterJargon(st, saved) == st

\* save_jargon_pair_async returns, the pair (edge text, cloud text) written
\* to jargon_memory or the write having failed; process_audio_chunk goes on
\* to the merge
JargonDone(seq, saved) ==
    /\ ~LoopBusy
    /\ seq \in 1..Len(tasks)
    /\ tasks[seq].pc = "jargon"
    /\ stats' = StatsAfterJargon(stats, saved)
    /\ Fuse(seq, tasks, [tasks[seq] EXCEPT !.jargon_saved = saved])
    /\ UNCHANGED <<is_capturing, audio_capture, leaked,
                   internet_available, cloud_client, readyq, stop_pc,
                   inflightAtStop, config, decision, chunkerVars>>

\* the rest of stop_capture: audio_capture.stop(); audio_capture = None
StopTail ==
    /\ audio_capture' = "none"
    /\ UNCHANGED leaked

\* POST /capture/stop, up to its return or to its await of the flush chunk.
\* The flush chunk's process_audio_chunk runs inside the handler, its edge
\* transcription included; is_capturing is already False, so a capture
\* callback arriving meanwhile returns at once.
StopCapture(in) ==
    /\ ~LoopBusy
    /\ is_capturing
    /\ stop_pc = "idle"
    /\ ~hung
    /\ is_capturing' = FALSE
    /\ inflightAtStop' =
          inflightAtStop \cup {q \in 1..Len(tasks) : tasks[q].pc = "cloud"}
    /\ IF audio_capture = "obj"
       THEN LET r == Flush(buffer, buffered_samples)
                seq == Len(tasks) + 1
            IN /\ buffer' = r.buf
               /\ buffered_samples' = r.n
               /\ IF r.ret # <<>>
                  THEN /\ ProcessStart(seq, Append(tasks, NewTask), in.e,
                                       in.confidence, in.noise)
                       /\ IF tasks'[seq].pc = "done"
                          THEN StopTail /\ UNCHANGED stop_pc
                          ELSE /\ stop_pc' = "await"
                               /\ UNCHANGED <<audio_capture, leaked>>
                  ELSE /\ StopTail
                       /\ UNCHANGED <<stop_pc, tasks, history, current_caption,
                                      delivered, stats, decision>>
       ELSE UNCHANGED <<buffer, buffered_samples, tasks, history,
                        current_caption, delivered, stats, decision, stop_pc,
                        audio_capture, leaked>>
    /\ UNCHANGED <<pushed, pushes, outChunks, lastOp, hung, flushes,
                   internet_available, cloud_client, readyq, config>>

\* the flush chunk's task has ended: stop_capture resumes and returns
StopResume ==
    /\ ~LoopBusy
    /\ stop_pc = "await"
    /\ tasks[Len(tasks)].pc = "done"
    /\ stop_pc' = "idle"
    /\ StopTail
    /\ UNCHANGED <<is_capturing, internet_available, cloud_client,
                   readyq, tasks, history, current_caption, delivered,
                   inflightAtStop, routerVars, chunkerVars>>

\* internet_checker_loop: one probe, which succeeds or fails (one that finds
\* what the last one found changes nothing)
CheckInternet(ok) ==
    /\ ~LoopBusy
    /\ ok # internet_available
    /\ internet_available' = ok
    /\ UNCHANGED <<is_capturing, audio_capture, leaked, cloud_client,
                   readyq, tasks, stop_pc, history, current_caption, delivered,
                   inflightAtStop, routerVars, chunkerVars>>

InitPipeVars ==
    /\ is_capturing = FALSE
    /\ audio_capture = "none"
    /\ leaked = FALSE
    /\ internet_available = TRUE
    /\ readyq = <<>>
    /\ tasks = <<>>
    /\ stop_pc = "idle"
    /\ history = <<>>
    /\ current_caption = NoCaption
    /\ delivered = <<>>
    /\ inflightAtStop = {}

(* ------------------------ broadcast_caption (Sink) --------------------- *)

VARIABLES
    active_connections, \* server.py global: the set of connected WebSockets
    sock,               \* per WebSocket: "new", "open", "broken" (sends raise),
                        \* "gone" (its handler has ended), "raised"
                        \* (its handler has ended in a KeyError)
    bcasts,             \* the broadcast_caption calls, by caption number
    received,           \* per WebSocket: the captions sent to it
    persisted,          \* the captions saved by save_caption_async
    current_session_id  \* server.py global: 0 for None, else the session's id

sinkVars == <<active_connections, sock, bcasts, received, persisted>>

Sockets == 1..MaxSubscribers

RECURSIVE Perms(_)
\* the orders in which a set can be listed
Perms(S) ==
    IF S = {} THEN {<<>>}
    ELSE UNION {{<<x>> \o p : p \in Perms(S \ {x})} : x \in S}

InitSinkVars ==
    /\ active_connections = {}
    /\ sock = [w \in Sockets |-> "new"]
    /\ bcasts = <<>>
    /\ received = [w \in Sockets |-> {}]
    /\ persisted = {}

\* websocket_captions up to its receive loop: accept, add to the set
Connect(w) ==
    /\ sock[w] = "new"
    /\ sock' = [sock EXCEPT ![w] = "open"]
    /\ active_connections' = active_connections \cup {w}
    /\ UNCHANGED <<bcasts, received, persisted, current_session_id>>

\* the peer of an open WebSocket goes away: from now on sends to it raise
Break(w) ==
    /\ sock[w] = "open"
    /\ sock' = [sock EXCEPT ![w] = "broken"]
    /\ UNCHANGED <<active_connections, bcasts, received, persisted,
                   current_session_id>>

\* `except WebSocketDisconnect: active_connections.remove(websocket)`: how the
\* handler ends. set.remove raises KeyError for an element the set does not
\* hold, and nothing in websocket_captions catches it
RemoveOnDisconnect(conns, w) == IF w \in conns THEN "gone" ELSE "raised"

\* websocket_captions: receive_text raises WebSocketDisconnect and the handler
\* removes its WebSocket (a KeyError when a broadcast removed it first ends the
\* handler as well and leaves the set as it is)
HandlerDisconnect(w) ==
    /\ sock[w] = "broken"
    /\ sock' = [sock EXCEPT ![w] = RemoveOnDisconnect(active_connections, w)]
    /\ active_connections' = active_connections \ {w}
    /\ UNCHANGED <<bcasts, received, persisted, current_session_id>>

\* the end of broadcast_caption: the connections whose send raised are
\* discarded from the set
RemoveDisconnected(conns, disconnected) == conns \ disconnected

OnSendErrorAborts(b, connection) ==
    [b EXCEPT !.todo = <<>>, !.raised = TRUE]

\* except Exception around send_json: the connection is noted, the loop goes on
OnSendError(b, connection) ==
    [b EXCEPT !.disconnected = @ \cup {connection}, !.todo = Tail(@)]

\* broadcast_caption from `for connection in list(active_connections)` to its
\* first send: the list is taken once, in any order; with nothing to send to
\* the call ends
StartSending(b, order) ==
    [b EXCEPT !.pc = IF order = <<>> THEN "done" ELSE "send",
              !.snapshot = {order[i] : i \in 1..Len(order)},
              !.todo = order]

\* a task calls broadcast_caption(caption k); with a session active the call
\* first awaits save_caption_async(current_session_id, caption), the session
\* id being the global's value at this point
BroadcastBegin ==
    /\ Len(bcasts) < MaxBroadcasts
    /\ LET b == [pc |-> "save", atBegin |-> active_connections, snapshot |-> {},
                 todo |-> <<>>, disconnected |-> {}, raised |-> FALSE,
                 session |-> current_session_id]
       IN IF current_session_id # 0
          THEN bcasts' = Append(bcasts, b)
          ELSE \E order \in Perms(active_connections) :
                  bcasts' = Append(bcasts, StartSending(b, order))
    /\ UNCHANGED <<active_connections, sock, received, persisted,
                   current_session_id>>

\* save_caption_async returns (its body catches what sqlite raises)
SaveDone(k) ==
    /\ k \in 1..Len(bcasts)
    /\ bcasts[k].pc = "save"
    /\ persisted' = persisted \cup {k}
    /\ \E order \in Perms(active_connections) :
          bcasts' = [bcasts EXCEPT ![k] = StartSending(@, order)]
    /\ UNCHANGED <<active_connections, sock, received, current_session_id>>

\* one send_json of broadcast k returns or raises; after the last one the
\* connections that raised are removed
Send(k) ==
    /\ k \in 1..Len(bcasts)
    /\ bcasts[k].pc = "send"
    /\ LET b == bcasts[k]
           connection == Head(b.todo)
           ok == sock[connection] = "open"
           b1 == IF ok THEN [b EXCEPT !.todo = Tail(@)]
                 ELSE OnSendError(b, connection)
           last == b1.todo = <<>>
       IN /\ received' = IF ok THEN [received EXCEPT ![connection] = @ \cup {k}]
                         ELSE received
          /\ bcasts' = [bcasts EXCEPT ![k] =
                           IF last THEN [b1 EXCEPT !.pc = "done"] ELSE b1]
          /\ active_connections' =
                IF last /\ ~b1.raised
                THEN RemoveDisconnected(active_connections, b1.disconnected)
                ELSE active_connections
    /\ UNCHANGED <<sock, persisted, current_session_id>>

(* --------------------------- control surface -------------------------- *)

VARIABLES
    session_count,     \* session ids handed out so far (uuid4 never repeats)
    response           \* what the last control request returned or raised

controlVars == <<current_session_id, session_count, response>>

NoResponse == [endpoint |-> "none", status |-> "none", session_id |-> 0]

\* raise HTTPException(status_code=400, detail=detail)
Rejected(endpoint, detail) ==
    [endpoint |-> endpoint, status |-> "400", detail |-> detail]

Returned(endpoint, status, session_id) ==
    [endpoint |-> endpoint, status |-> status, session_id |-> session_id]

InitControlVars ==
    /\ current_session_id = 0
    /\ session_count = 0
    /\ response = NoResponse

SessionActiveNever(session_id) == FALSE

\* `if current_session_id:`
SessionActive(session_id) == session_id # 0

\* POST /session/start
StartSession ==
    IF SessionActive(current_session_id)
    THEN /\ response' = Returned("session/start", "session_already_active",
                                 current_session_id)
         /\ UNCHANGED <<current_session_id, session_count>>
    ELSE /\ session_count < MaxSessions
         /\ current_session_id' = session_count + 1
         /\ session_count' = session_count + 1
         /\ response' = Returned("session/start", "session_started",
                                 session_count + 1)

\* POST /session/end
EndSession ==
    IF ~SessionActive(current_session_id)
    THEN /\ response' = Rejected("session/end", "No active session")
         /\ UNCHANGED <<current_session_id, session_count>>
    ELSE /\ current_session_id' = 0
         /\ response' = Returned("session/end", "session_ended",
                                 current_session_id)
         /\ UNCHANGED session_count

\* GET /captions/history: the captions the database holds for the session
GetCaptionHistory ==
    /\ response' =
          IF ~SessionActive(current_session_id)
          THEN Rejected("captions/history", "No active session")
          ELSE Returned("captions/history", "captions", current_session_id)
    /\ UNCHANGED <<current_session_id, session_count>>

\* POST /capture/start while capturing
StartCaptureRejected ==
    /\ is_capturing
    /\ response' = Rejected("capture/start", "Capture already running")
    /\ UNCHANGED <<current_session_id, session_count>>

\* POST /capture/stop while not capturing
StopCaptureRejected ==
    /\ ~is_capturing
    /\ response' = Rejected("capture/stop", "Capture not running")
    /\ UNCHANGED <<current_session_id, session_count>>

(* ------------------- ConfidenceEstimator, NoiseEstimator --------------- *)

VARIABLES
    \* ConfidenceEstimator
    confidence_history,
    confidence_arg,     \* the arguments of the last estimate_confidence call
    confidence_out,     \* what it returned
    confidence_calls,
    \* NoiseEstimator
    rms_history,
    zcr_history,
    baseline_rms,       \* NoBaseline for None
    baseline_zcr,
    noise_arg,          \* the chunk of the last estimate_noise call
    noise_out,          \* what it returned
    noise_calls

confidenceVars ==
    <<confidence_history, confidence_arg, confidence_out, confidence_calls>>

noiseVars ==
    <<rms_history, zcr_history, baseline_rms, baseline_zcr, noise_arg,
      noise_out, noise_calls>>

scorerVars == <<confidenceVars, noiseVars>>

Min(a, b) == IF a < b THEN a ELSE b
Max(a, b) == IF a > b THEN a ELSE b
Abs(a) == IF a < 0 THEN -a ELSE a

\* min(1.0, max(0.0, x))
Clamp(x) == Min(One, Max(0, x))

PushWindowUnbounded(h, x) == Append(h, x)

\* list.append(x), then pop(0) once the list is longer than window_size
PushWindow(h, x) ==
    LET h1 == Append(h, x)
    IN IF Len(h1) > WindowSize THEN Tail(h1) ELSE h1

\* `not text or len(text.strip()) == 0` on the texts "", " " and "hi"
Blank(text) == text \in {"", " "}

\* adjusted_confidence before smoothing: the token confidence (the edge
\* confidence when there are no log-probabilities) weighted 0.7 against the
\* edge confidence, less the noise penalty of up to 30%
AdjustedConfidence(arg) ==
    LET token_confidence ==
            IF arg.token_logprobs THEN Clamp(arg.token_confidence)
            ELSE arg.edge_raw_confidence
        combined_confidence ==
            (7 * token_confidence + 3 * arg.edge_raw_confidence) \div 10
        noise_penalty == (3 * arg.noise_score) \div 10
    IN (combined_confidence * (One - noise_penalty)) \div One

\* the history update and the smoothing against confidence_history[-2]
Smooth(hist, adjusted_confidence) ==
    LET h == PushWindow(hist, adjusted_confidence)
        smoothed ==
            IF Len(h) > 1
            THEN (SmoothingAlpha * adjusted_confidence
                    + (10 - SmoothingAlpha) * h[Len(h) - 1]) \div 10
            ELSE adjusted_confidence
    IN [history |-> h, score |-> Clamp(smoothed)]

EstimateConfidenceRecordsBlank(hist, arg) == IF Blank(arg.text) THEN [history |-> PushWindow(hist, 0), score |-> 0] ELSE Smooth(hist, AdjustedConfidence(arg))

\* estimate_confidence(text, token_logprobs, edge_raw_confidence, noise_score)
\* on an estimator with this history: the new history and the score returned
EstimateConfidence(hist, arg) ==
    IF Blank(arg.text)
    THEN [history |-> hist, score |-> 0]
    ELSE Smooth(hist, AdjustedConfidence(arg))

\* arguments of estimate_confidence: no text, a blank text, a text without
\* log-probabilities, and one with them under full noise
ConfidenceInputs ==
    {[text |-> "", token_logprobs |-> FALSE, token_confidence |-> 0,
      edge_raw_confidence |-> 0, noise_score |-> 7000],
     [text |-> " ", token_logprobs |-> TRUE, token_confidence |-> 5000,
      edge_raw_confidence |-> 5000, noise_score |-> 0],
     [text |-> "hi", token_logprobs |-> FALSE, token_confidence |-> 0,
      edge_raw_confidence |-> 8000, noise_score |-> 0],
     [text |-> "hi", token_logprobs |-> TRUE, token_confidence |-> 5000,
      edge_raw_confidence |-> 9000, noise_score |-> One]}

NoArg == [text |-> "<none>"]

InitConfidenceVars ==
    /\ confidence_history = <<>>
    /\ confidence_arg = NoArg
    /\ confidence_out = 0
    /\ confidence_calls = 0

EstimateConfidenceCall(arg) ==
    /\ confidence_calls < MaxScorerCalls
    /\ LET r == EstimateConfidence(confidence_history, arg)
       IN /\ confidence_history' = r.history
          /\ confidence_out' = r.score
    /\ confidence_arg' = arg
    /\ confidence_calls' = confidence_calls + 1

\* _compute_rms on a chunk all of whose samples have one magnitude
ComputeRms(audio) ==
    IF Len(audio) = 0 THEN 0 ELSE Abs(audio[1])

Sign(x) == IF x > 0 THEN 1 ELSE IF x < 0 THEN -1 ELSE 0

RECURSIVE SignChanges(_, _)
\* np.sum(np.abs(np.diff(np.sign(audio)))) from sample i on
SignChanges(audio, i) ==
    IF i >= Len(audio) THEN 0
    ELSE Abs(Sign(audio[i + 1]) - Sign(audio[i])) + SignChanges(audio, i + 1)

\* _compute_zcr: zero crossings per sample
ComputeZcr(audio) ==
    IF Len(audio) < 2 THEN 0
    ELSE (SignChanges(audio, 1) * One) \div (2 * Len(audio))

\* np.median of the last five values
MedianOfLast5(h) ==
    LET last == SubSeq(h, Len(h) - 4, Len(h))
    IN CHOOSE m \in {last[i] : i \in 1..5} :
          /\ Cardinality({i \in 1..5 : last[i] <= m}) >= 3
          /\ Cardinality({i \in 1..5 : last[i] >= m}) >= 3

NoBaseline == -1

\* abs(x - baseline) / max(baseline, 0.001)
Deviation(x, baseline) == (Abs(x - baseline) * One) \div Max(baseline, 10)

NoiseScoreNormalizedAtLeastOne(rms, zcr, b_rms, b_zcr) == Clamp((6 * Max(One, (rms * One) \div RmsThreshold) + 4 * Max(One, (zcr * One) \div ZcrThreshold)) \div 10)

NoiseScoreUnnormalized(rms, zcr, b_rms, b_zcr) == IF b_rms # NoBaseline /\ b_zcr # NoBaseline THEN Clamp((7 * ((6 * ((rms * One) \div RmsThreshold) + 4 * ((zcr * One) \div ZcrThreshold)) \div 10) + 3 * Min(One, (Deviation(rms, b_rms) + Deviation(zcr, b_zcr)) \div 2)) \div 10) ELSE Clamp((6 * ((rms * One) \div RmsThreshold) + 4 * ((zcr * One) \div ZcrThreshold)) \div 10)

\* the score estimate_noise computes from the features and the baselines
NoiseScore(rms, zcr, b_rms, b_zcr) ==
    LET rms_normalized == Min(One, (rms * One) \div RmsThreshold)
        zcr_normalized == Min(One, (zcr * One) \div ZcrThreshold)
        noise_score == (6 * rms_normalized + 4 * zcr_normalized) \div 10
        deviation_score ==
            Min(One, (Deviation(rms, b_rms) + Deviation(zcr, b_zcr)) \div 2)
    IN IF b_rms # NoBaseline /\ b_zcr # NoBaseline
       THEN Clamp((7 * noise_score + 3 * deviation_score) \div 10)
       ELSE Clamp(noise_score)

\* chunks given to estimate_noise: an empty one, an all-zero one, a quiet
\* one, and one whose RMS is 5 times rms_threshold and whose zero-crossing
\* rate is 7.5 times zcr_threshold
NoiseChunks ==
    {<<>>,
     <<0, 0, 0, 0>>,
     <<100, 100, 100, 100>>,
     <<1000, -1000, 1000, -1000>>}

InitNoiseVars ==
    /\ rms_history = <<>>
    /\ zcr_history = <<>>
    /\ baseline_rms = NoBaseline
    /\ baseline_zcr = NoBaseline
    /\ noise_arg = <<>>
    /\ noise_out = 0
    /\ noise_calls = 0

\* estimate_noise(audio_chunk)
EstimateNoiseCall(audio_chunk) ==
    /\ noise_calls < MaxScorerCalls
    /\ LET rms == ComputeRms(audio_chunk)
           zcr == ComputeZcr(audio_chunk)
           rh == PushWindow(rms_history, rms)
           zh == PushWindow(zcr_history, zcr)
           b_rms == IF Len(rh) >= 5 THEN MedianOfLast5(rh) ELSE baseline_rms
           b_zcr == IF Len(zh) >= 5 THEN MedianOfLast5(zh) ELSE baseline_zcr
       IN /\ rms_history' = rh
          /\ zcr_history' = zh
          /\ baseline_rms' = b_rms
          /\ baseline_zcr' = b_zcr
          /\ noise_out' = NoiseScore(rms, zcr, b_rms, b_zcr)
    /\ noise_arg' = audio_chunk
    /\ noise_calls' = noise_calls + 1

InitScorerVars ==
    /\ InitConfidenceVars
    /\ InitNoiseVars

\* what process_audio_chunk has for the two estimators: the chunk, and the
\* text, log-probabilities and confidence EdgeASR returned for it
ScoreInputs ==
    {[audio |-> <<0, 0, 0, 0>>,
      edge |-> [text |-> "hi", token_logprobs |-> FALSE, token_confidence |-> 0,
                edge_raw_confidence |-> 8000, noise_score |-> 0]],
     [audio |-> <<1000, -1000, 1000, -1000>>,
      edge |-> [text |-> "hi", token_logprobs |-> TRUE, token_confidence |-> 5000,
                edge_raw_confidence |-> 9000, noise_score |-> 0]],
     [audio |-> <<100, 100, 100, 100>>,
      edge |-> [text |-> " ", token_logprobs |-> FALSE, token_confidence |-> 0,
                edge_raw_confidence |-> 0, noise_score |-> 0]]}

\* process_audio_chunk, steps 2 and 3: estimate_noise on the chunk, then
\* estimate_confidence with the noise score it returned
ScoreChunk(in) ==
    /\ EstimateNoiseCall(in.audio)
    /\ EstimateConfidenceCall([in.edge EXCEPT !.noise_score = noise_out'])

(* --------------------- the capture thread, step by step ---------------- *)

VARIABLES
    callback_pc,       \* "idle", or "entered": audio_callback is past its
                       \* is_capturing test and has not called add_audio yet
    captured_under     \* history: per chunk handed to the loop, the value of
                       \* current_session_id when audio_callback handed it over

raceVars == <<callback_pc, captured_under>>

InitRaceVars ==
    /\ callback_pc = "idle"
    /\ captured_under = <<>>

\* audio_callback hands a complete chunk to the event loop; its task runs
\* later, and is suspended at each await of process_audio_chunk
ChunkCaptured ==
    /\ Len(captured_under) < MaxBroadcasts
    /\ captured_under' = Append(captured_under, current_session_id)
    /\ UNCHANGED callback_pc

\* audio_callback on the capture thread, up to its test of is_capturing:
\* capture is on and the callback goes on towards chunker.add_audio
CallbackEnter ==
    /\ (audio_capture = "obj" \/ leaked)
    /\ is_capturing
    /\ callback_pc = "idle"
    /\ callback_pc' = "entered"
    /\ UNCHANGED <<routerVars, chunkerVars, pipeVars, captured_under>>

\* the rest of audio_callback, whatever the event loop has done meanwhile:
\* add_audio on the frame, and each chunk it returns handed to the loop
CallbackAdd ==
    /\ callback_pc = "entered"
    /\ ~hung
    /\ Len(tasks) < MaxChunks
    /\ callback_pc' = "idle"
    /\ LET r == AddAudio(buffer, buffered_samples,
                         Samples(buffered_samples, config.blocksize))
           new == IF r.spins THEN <<>> ELSE r.chunks
       IN /\ buffer' = r.buf
          /\ buffered_samples' = r.n
          /\ hung' = r.spins
          /\ readyq' = readyq \o [i \in 1..Len(new) |-> Len(tasks) + i]
          /\ tasks' = tasks \o [i \in 1..Len(new) |-> NewTask]
    /\ UNCHANGED <<pushed, pushes, outChunks, lastOp, flushes, is_capturing,
                   audio_capture, leaked, internet_available, cloud_client,
                   stop_pc, history, current_caption, delivered, inflightAtStop,
                   routerVars, captured_under>>

\* GET /stats
GetStatsCall ==
    /\ response' = [endpoint |-> "stats", status |-> "200",
                    router_stats |-> GetStats(stats)]
    /\ UNCHANGED <<current_session_id, session_count>>

vars ==
    <<routerVars, chunkerVars, pipeVars, mergerVars, sinkVars, controlVars,
      scorerVars, raceVars>>

(* --------------------------- specifications ---------------------------- *)

DefaultConfig ==
    [enable_cloud_asr |-> TRUE,
     min_confidence_threshold |-> DefaultConfidenceThreshold,
     noise_threshold |-> DefaultNoiseThreshold,
     blocksize |-> ChunkSize]

auxVars == <<mergerVars, sinkVars, controlVars, scorerVars, raceVars>>

\* the pipeline variables merge_captions does not touch
pipeRest ==
    <<is_capturing, audio_capture, leaked, internet_available, cloud_client,
      readyq, tasks, stop_pc, delivered, inflightAtStop>>

InitAux ==
    /\ InitMergerVars
    /\ InitSinkVars
    /\ InitControlVars
    /\ InitScorerVars
    /\ InitRaceVars

InitChunker ==
    /\ InitChunkerVars
    /\ InitRouterVars
    /\ InitPipeVars
    /\ InitAux
    /\ cloud_client = FALSE
    /\ config = DefaultConfig

NextChunker ==
    \/ \E m \in 0..MaxFrame : Push(m) /\ UNCHANGED <<routerVars, pipeVars, auxVars>>
    \/ DoFlush /\ UNCHANGED <<routerVars, pipeVars, auxVars>>

InitRouter ==
    /\ InitRouterVars
    /\ config \in Configs
    /\ InitChunkerVars
    /\ InitPipeVars
    /\ InitAux
    /\ cloud_client = FALSE

NextRouter ==
    \/ \E c \in ConfValues, n \in NoiseValues, i \in BOOLEAN :
          Decide(c, n, i) /\ UNCHANGED <<chunkerVars, pipeVars, auxVars>>
    \/ \E s \in BOOLEAN, t \in BOOLEAN :
          Record(s, t) /\ UNCHANGED <<chunkerVars, pipeVars, auxVars>>
    \/ ResetStats /\ UNCHANGED <<chunkerVars, pipeVars, auxVars>>

SpecRouter == InitRouter /\ [][NextRouter]_vars

\* the Router of the server with its statistics read and reset
InitStats ==
    /\ InitRouterVars
    /\ config = DefaultConfig
    /\ InitChunkerVars
    /\ InitPipeVars
    /\ InitAux
    /\ cloud_client = FALSE

statsRest == <<chunkerVars, pipeVars, mergerVars, sinkVars, scorerVars, raceVars>>

NextStats ==
    \/ \E in \in ChunkInputs, i \in BOOLEAN :
          Decide(in.confidence, in.noise, i) /\ UNCHANGED <<statsRest, controlVars>>
    \/ \E s \in BOOLEAN, t \in BOOLEAN :
          Record(s, t) /\ UNCHANGED <<statsRest, controlVars>>
    \/ ResetStats /\ UNCHANGED <<statsRest, controlVars>>
    \/ GetStatsCall /\ UNCHANGED <<statsRest, routerVars>>

SpecStats == InitStats /\ [][NextStats]_vars

\* the stream's blocksize divides the chunk size, as in AudioConfig, where
\* chunk_size = sample_rate * chunk_duration_ms / 1000: the chunk size itself
\* and its largest proper divisor
Blocksizes ==
    {b \in 1..ChunkSize :
        /\ ChunkSize % b = 0
        /\ \A c \in (b + 1)..(ChunkSize - 1) : ChunkSize % c # 0}

\* the server; without OPENAI_API_KEY there is no cloud client, and with
\* cloud ASR disabled it does not matter whether there is one
Init ==
    /\ InitChunkerVars
    /\ InitRouterVars
    /\ InitPipeVars
    /\ InitAux
    /\ cloud_client \in BOOLEAN
    /\ config \in [enable_cloud_asr : BOOLEAN,
                   min_confidence_threshold : {DefaultConfidenceThreshold},
                   noise_threshold : {DefaultNoiseThreshold},
                   blocksize : Blocksizes]
    /\ cloud_client => config.enable_cloud_asr

Next ==
    \/ StartCapture /\ UNCHANGED auxVars
    \/ AudioCallback /\ UNCHANGED auxVars
    \/ TaskBegin /\ UNCHANGED auxVars
    \/ \E in \in ChunkInputs : TaskStart(in) /\ UNCHANGED auxVars
    \/ \E seq \in 1..MaxChunks, r \in CloudResults :
          CloudReturn(seq, r[1], r[2]) /\ UNCHANGED auxVars
    \/ \E seq \in 1..MaxChunks, saved \in BOOLEAN :
          JargonDone(seq, saved) /\ UNCHANGED auxVars
    \/ \E in \in ChunkInputs : StopCapture(in) /\ UNCHANGED auxVars
    \/ StopResume /\ UNCHANGED auxVars
    \/ \E ok \in BOOLEAN : CheckInternet(ok) /\ UNCHANGED auxVars

Spec == Init /\ [][Next]_vars

\* the server under a fair event loop: a task that is ready is run
\* (TaskBegin), edge_asr.transcribe returns (TaskStart), a cloud call ends in
\* a result, an error or its timeout (CloudReturn), and the executor returns
\* from the jargon write (JargonDone)
Fairness ==
    /\ WF_vars(TaskBegin /\ UNCHANGED auxVars)
    /\ WF_vars(\E in \in ChunkInputs : TaskStart(in) /\ UNCHANGED auxVars)
    /\ WF_vars(\E seq \in 1..MaxChunks, r \in CloudResults :
                  CloudReturn(seq, r[1], r[2]) /\ UNCHANGED auxVars)
    /\ WF_vars(\E seq \in 1..MaxChunks, saved \in BOOLEAN :
                  JargonDone(seq, saved) /\ UNCHANGED auxVars)

SpecFair == Init /\ [][Next]_vars /\ Fairness

\* the server with the capture thread's callback taken in two steps, the
\* event loop free to run between them
NextRace ==
    \/ StartCapture /\ UNCHANGED auxVars
    \/ CallbackEnter /\ UNCHANGED <<mergerVars, sinkVars, controlVars, scorerVars>>
    \/ CallbackAdd /\ UNCHANGED <<mergerVars, sinkVars, controlVars, scorerVars>>
    \/ TaskBegin /\ UNCHANGED auxVars
    \/ \E in \in ChunkInputs : TaskStart(in) /\ UNCHANGED auxVars
    \/ \E seq \in 1..MaxChunks, r \in CloudResults :
          CloudReturn(seq, r[1], r[2]) /\ UNCHANGED auxVars
    \/ \E seq \in 1..MaxChunks, saved \in BOOLEAN :
          JargonDone(seq, saved) /\ UNCHANGED auxVars
    \/ \E in \in ChunkInputs : StopCapture(in) /\ UNCHANGED auxVars
    \/ StopResume /\ UNCHANGED auxVars
    \/ \E ok \in BOOLEAN : CheckInternet(ok) /\ UNCHANGED auxVars

SpecRace == Init /\ [][NextRace]_vars

SpecChunker == InitChunker /\ [][NextChunker]_vars

\* the two estimators on their own
InitScorers ==
    /\ InitChunkerVars
    /\ InitRouterVars
    /\ InitPipeVars
    /\ InitAux
    /\ cloud_client = FALSE
    /\ config = DefaultConfig

scorerRest ==
    <<routerVars, chunkerVars, pipeVars, mergerVars, sinkVars, controlVars,
      raceVars>>

NextConfidence ==
    \E arg \in ConfidenceInputs :
        EstimateConfidenceCall(arg) /\ UNCHANGED <<scorerRest, noiseVars>>

SpecConfidence == InitScorers /\ [][NextConfidence]_vars

NextNoise ==
    \E audio_chunk \in NoiseChunks :
        EstimateNoiseCall(audio_chunk) /\ UNCHANGED <<scorerRest, confidenceVars>>

SpecNoise == InitScorers /\ [][NextNoise]_vars

NextScorers ==
    \E in \in ScoreInputs : ScoreChunk(in) /\ UNCHANGED scorerRest

SpecScorers == InitScorers /\ [][NextScorers]_vars

\* CaptionMerger on its own: every run repeats one argument tuple, the
\* captions differing by their timestamps
InitMerger ==
    /\ InitChunkerVars
    /\ InitRouterVars
    /\ InitPipeVars
    /\ InitSinkVars
    /\ InitControlVars
    /\ InitScorerVars
    /\ InitRaceVars
    /\ cloud_client = FALSE
    /\ config = DefaultConfig
    /\ merge_arg \in MergeInputs
    /\ merges = 0
    /\ history_out = NoHistoryOut

NextMerger ==
    MergeCall /\ UNCHANGED <<routerVars, chunkerVars, pipeRest, sinkVars,
                             controlVars, scorerVars, raceVars>>

SpecMerger == InitMerger /\ [][NextMerger]_vars

\* get_history between the first merge_captions calls of a run, with the
\* limits around the lengths the history has by then and the default one
HistoryLimits == 0..(MaxHistoryCalls + 1) \cup {DefaultHistoryLimit}

historyRest ==
    <<routerVars, chunkerVars, pipeRest, sinkVars, controlVars, scorerVars,
      raceVars>>

NextHistory ==
    \/ merges < MaxHistoryCalls /\ MergeCall /\ UNCHANGED historyRest
    \/ \E limit \in HistoryLimits : GetHistoryCall(limit) /\ UNCHANGED historyRest

SpecHistory == InitMerger /\ [][NextHistory]_vars

\* broadcast_caption on its own, with or without a session
InitSink ==
    /\ InitChunkerVars
    /\ InitRouterVars
    /\ InitPipeVars
    /\ InitMergerVars
    /\ InitSinkVars
    /\ InitScorerVars
    /\ InitRaceVars
    /\ cloud_client = FALSE
    /\ config = DefaultConfig
    /\ current_session_id \in {0, 1}
    /\ session_count = current_session_id
    /\ response = NoResponse

sinkRest ==
    <<routerVars, chunkerVars, pipeVars, mergerVars, scorerVars, raceVars,
      session_count, response>>

NextSink ==
    \/ \E w \in Sockets : Connect(w) /\ UNCHANGED sinkRest
    \/ \E w \in Sockets : Break(w) /\ UNCHANGED sinkRest
    \/ \E w \in Sockets : HandlerDisconnect(w) /\ UNCHANGED sinkRest
    \/ BroadcastBegin /\ UNCHANGED sinkRest
    \/ \E k \in 1..MaxBroadcasts : SaveDone(k) /\ UNCHANGED sinkRest
    \/ \E k \in 1..MaxBroadcasts : Send(k) /\ UNCHANGED sinkRest

SpecSink == InitSink /\ [][NextSink]_vars

\* the control surface: session and capture requests, accepted and rejected
InitControl ==
    /\ InitChunkerVars
    /\ InitRouterVars
    /\ InitPipeVars
    /\ InitAux
    /\ cloud_client = FALSE
    /\ config = DefaultConfig

controlRest ==
    <<routerVars, chunkerVars, pipeVars, mergerVars, sinkVars, scorerVars, raceVars>>

NextControl ==
    \/ StartSession /\ UNCHANGED controlRest
    \/ EndSession /\ UNCHANGED controlRest
    \/ GetCaptionHistory /\ UNCHANGED controlRest
    \/ StartCaptureRejected /\ UNCHANGED controlRest
    \/ StopCaptureRejected /\ UNCHANGED controlRest
    \/ /\ StartCapture
       /\ response' = Returned("capture/start", "capture_started", 0)
       /\ UNCHANGED <<current_session_id, session_count, mergerVars, sinkVars,
                      scorerVars, raceVars>>
    \/ /\ \E in \in ChunkInputs : StopCapture(in)
       /\ response' = IF stop_pc' = "idle"
                      THEN Returned("capture/stop", "capture_stopped", 0)
                      ELSE response
       /\ UNCHANGED <<current_session_id, session_count, mergerVars, sinkVars,
                      scorerVars, raceVars>>

SpecControl == InitControl /\ [][NextControl]_vars

\* sessions starting and ending while the tasks of captured chunks are on
\* their way to broadcast_caption: the task of chunk k, suspended since its
\* capture, reaches broadcast_caption as call k
sessionRest ==
    <<routerVars, chunkerVars, pipeVars, mergerVars, scorerVars>>

NextSession ==
    \/ StartSession /\ UNCHANGED controlRest
    \/ EndSession /\ UNCHANGED controlRest
    \/ ChunkCaptured /\ UNCHANGED <<sessionRest, sinkVars, controlVars>>
    \/ \E w \in Sockets : Connect(w) /\ UNCHANGED sinkRest
    \/ /\ Len(bcasts) < Len(captured_under)
       /\ BroadcastBegin
       /\ UNCHANGED sinkRest
    \/ \E k \in 1..MaxBroadcasts : SaveDone(k) /\ UNCHANGED sinkRest
    \/ \E k \in 1..MaxBroadcasts : Send(k) /\ UNCHANGED sinkRest

SpecSession == InitControl /\ [][NextSession]_vars

(* --------------------------- pipeline claims --------------------------- *)

Seqs == 1..Len(tasks)

DeliveredSeqs == {delivered[i].seq : i \in 1..Len(delivered)}

FailedOutcomes == {"empty", "timeout", "error", "unavailable"}

\* C1: the captions handed to broadcast_caption have non-decreasing sequence
\* numbers, a chunk's sequence number being its place in the order the
\* chunker produced the chunks.
C1_SinkOrder ==
    \A i, j \in 1..Len(delivered) :
        i < j => delivered[i].seq <= delivered[j].seq

\* C2: while capture stays stopped, a chunk whose cloud call was pending when
\* it was stopped gets no caption with source cloud, produced or delivered.
C2_NoFusionAfterStop ==
    /\ \A q \in inflightAtStop : tasks[q].caption.source # "cloud"
    /\ \A i \in 1..Len(delivered) :
          delivered[i].seq \in inflightAtStop =>
              delivered[i].caption.source # "cloud"

\* C9: every cloud call that timed out has added one to cloud_timeout and
\* one to cloud_failed; every other failed cloud call has added one to
\* cloud_failed only.
C9_TimeoutRecorded ==
    /\ stats.cloud_timeout =
          Cardinality({q \in Seqs : tasks[q].outcome = "timeout"})
    /\ stats.cloud_failed =
          Cardinality({q \in Seqs : tasks[q].outcome \in FailedOutcomes})

\* C10: a chunk routed to the cloud whose cloud call failed (an exception,
\* an empty text, a timeout, no client) has its task run to the end with a
\* caption fused from the edge result alone (source edge, the edge text, the
\* edge confidence), delivered exactly when that text is not empty.
C10_RemoteFailureFallsBackToEdge ==
    \A q \in Seqs :
        tasks[q].outcome \in FailedOutcomes =>
            /\ tasks[q].use_cloud
            /\ tasks[q].pc = "done"
            /\ tasks[q].caption =
                  [text |-> tasks[q].edge.text, source |-> "edge",
                   confidence |-> tasks[q].edge.conf,
                   noise_score |-> tasks[q].noise]
            /\ (q \in DeliveredSeqs) = (Strip(tasks[q].edge.text) # "")
            /\ \A i \in 1..Len(delivered) :
                  delivered[i].seq = q => delivered[i].caption = tasks[q].caption

\* one chunk's cloud call timed out and its edge caption was delivered, while
\* another chunk's cloud call returned nothing and nothing was delivered for it
C10_Witness ==
    \E q, r \in Seqs :
        /\ tasks[q].outcome = "timeout"
        /\ tasks[q].pc = "done"
        /\ tasks[q].caption.source = "edge"
        /\ q \in DeliveredSeqs
        /\ tasks[r].outcome = "empty"
        /\ tasks[r].edge.text = ""
        /\ tasks[r].pc = "done"
        /\ r \notin DeliveredSeqs

\* the chunks whose task has got past edge transcription and scoring
Started == {q \in Seqs : tasks[q].pc \notin {"queued", "edge"}}

\* C13: as long as every chunk scored so far has confidence >= 0.75 and noise
\* <= 0.6, no cloud call has been issued, routed_to_cloud is 0 and every
\* delivered caption has source edge, whatever the connectivity and the
\* cloud setting.
C13_ConfidentChunksStayLocal ==
    (\A q \in Started : tasks[q].confidence >= 75 /\ tasks[q].noise <= 60) =>
        /\ stats.routed_to_cloud = 0
        /\ \A q \in Seqs :
              /\ tasks[q].pc \notin {"cloud", "jargon"}
              /\ ~tasks[q].use_cloud
              /\ tasks[q].outcome = "none"
        /\ \A i \in 1..Len(delivered) : delivered[i].caption.source = "edge"

\* two chunks at the cut-offs themselves, delivered from the edge with the
\* cloud enabled, configured and reachable
C13_Witness ==
    /\ Len(tasks) = 2
    /\ \A q \in Seqs :
          /\ tasks[q].pc = "done"
          /\ tasks[q].confidence = 75
          /\ tasks[q].noise = 60
    /\ Len(delivered) = 2
    /\ config.enable_cloud_asr
    /\ cloud_client
    /\ internet_available
    /\ stats.routed_to_cloud = 0

\* C14: while a chunk task is inside its edge transcription, whatever else is
\* ready to run can be scheduled: a chunk task handed over by the callback,
\* a chunk task whose cloud call is ending, the connectivity poller, a
\* capture/stop request.
C14_LoopNeverStalled ==
    (\E q \in Seqs : tasks[q].pc = "edge") =>
        /\ readyq # <<>> => ENABLED TaskBegin
        /\ (\E q \in Seqs : tasks[q].pc = "cloud") =>
              ENABLED (\E seq \in Seqs, r \in CloudResults :
                          CloudReturn(seq, r[1], r[2]))
        /\ ENABLED (\E ok \in BOOLEAN : CheckInternet(ok))
        /\ (is_capturing /\ stop_pc = "idle") =>
              ENABLED (\E in \in ChunkInputs : StopCapture(in))

\* C15: while a chunk's task is suspended on its cloud call, the callback can
\* take in the next frame, the next chunk's task can start and can run on
\* through scoring, routing, fusion and delivery; and within one task nothing
\* is decided before the scores, no outcome is recorded before the cloud
\* call, and nothing is fused or delivered before the outcome is recorded.
C15_TasksOverlapStepsInOrder ==
    /\ (\E q \in Seqs : tasks[q].pc = "cloud") =>
          /\ (readyq # <<>> /\ \A q \in Seqs : tasks[q].pc # "edge") =>
                ENABLED TaskBegin
          /\ (\E q \in Seqs : tasks[q].pc = "edge") =>
                ENABLED (\E in \in ChunkInputs : TaskStart(in))
          /\ (is_capturing /\ (audio_capture = "obj" \/ leaked) /\ ~hung
                /\ Len(tasks) < MaxChunks) => ENABLED AudioCallback
    /\ \A q \in Seqs :
          LET t == tasks[q] IN
          /\ t.pc \in {"queued", "edge"} =>
                /\ [t EXCEPT !.pc = "queued"] = NewTask
                /\ q \notin DeliveredSeqs
          /\ t.pc = "cloud" =>
                /\ t.use_cloud
                /\ t.outcome = "none"
                /\ t.caption = NoCaption
                /\ q \notin DeliveredSeqs
          /\ t.pc = "jargon" =>
                /\ t.use_cloud
                /\ t.outcome = "ok"
                /\ t.caption = NoCaption
                /\ q \notin DeliveredSeqs
          /\ t.pc = "done" =>
                /\ t.caption # NoCaption
                /\ t.use_cloud = (t.outcome # "none")
    /\ stats.total_chunks = Cardinality(Started)
    /\ stats.routed_to_cloud = Cardinality({q \in Seqs : tasks[q].use_cloud})
    /\ stats.cloud_succeeded + stats.cloud_failed =
          Cardinality({q \in Seqs : tasks[q].outcome # "none"})

\* the second chunk fused and delivered while the first one's cloud call is
\* still pending
C15_Witness ==
    /\ Len(tasks) = 2
    /\ tasks[1].pc = "cloud"
    /\ tasks[2].pc = "done"
    /\ 2 \in DeliveredSeqs
    /\ 1 \notin DeliveredSeqs

\* a step of audio_callback: a frame goes into the chunker or a chunk comes
\* out of it, with capture still on
CallbackStep ==
    /\ is_capturing' = is_capturing
    /\ stop_pc' = stop_pc
    /\ Len(readyq') >= Len(readyq)
    /\ (buffer' # buffer \/ Len(tasks') > Len(tasks))

\* C16: the capture callback can run in every state in which a frame can
\* arrive, whatever the chunk tasks are doing, and the step it takes only
\* buffers and hands over: no task already there moves, the new ones are left
\* for the event loop to start, nothing is fused or delivered.
C16_CallbackNeverWaits ==
    /\ []((is_capturing /\ (audio_capture = "obj" \/ leaked) /\ ~hung
             /\ Len(tasks) < MaxChunks) => ENABLED AudioCallback)
    /\ [][CallbackStep =>
             /\ \A q \in 1..Len(tasks) : tasks'[q] = tasks[q]
             /\ \A q \in (Len(tasks) + 1)..Len(tasks') : tasks'[q].pc = "queued"
             /\ readyq' = readyq \o [i \in 1..(Len(tasks') - Len(tasks)) |->
                                        Len(tasks) + i]
             /\ UNCHANGED <<delivered, history, current_caption, stats>>]_vars

\* the callback has buffered a frame and handed over a chunk while the
\* first chunk's task is suspended on its cloud call
C16_Witness ==
    /\ Len(tasks) = 2
    /\ tasks[1].pc = "cloud"
    /\ tasks[2].pc = "queued"
    /\ readyq = <<2>>
    /\ is_capturing

\* C17: chunk tasks begin in chunk order, the flush chunk included: no task
\* has begun while the task of an earlier chunk has not.
C17_TasksStartInOrder ==
    \A i, j \in Seqs :
        (i < j /\ tasks[j].pc # "queued") => tasks[i].pc # "queued"

\* C19: a chunk whose fused caption is empty or blank has nothing delivered
\* and nothing persisted, and has been counted by the Router.
C19_EmptyCaptionNothingPersisted ==
    /\ \A q \in Seqs :
          (tasks[q].pc = "done" /\ tasks[q].caption.text \in {"", " "}) =>
              /\ q \notin DeliveredSeqs
              /\ ~tasks[q].jargon_saved
    /\ stats.total_chunks = Cardinality(Started)

(* ---------------------------- router claims ---------------------------- *)

Decided == decision.reason # "none"

Reasons ==
    {"edge_sufficient", "low_confidence", "high_noise",
     "low_confidence_and_high_noise", "no_internet", "cloud_disabled"}

\* C3: decide_routing returns use_remote = (confidence < 0.75 or noise > 0.6)
\* and connectivity and cloud_enabled; the reason is cloud_disabled when the
\* chunk qualifies with connectivity but cloud is disabled, the matching
\* low/high reason when routed, no_internet whenever connectivity is false,
\* edge_sufficient otherwise; 0.75 and 0.6 themselves do not qualify.
C3_RoutingPredicate ==
    Decided =>
        LET c == decision.confidence
            n == decision.noise_score
            inet == decision.internet_available
            low == c < 75
            high == n > 60
        IN /\ decision.use_cloud = ((low \/ high) /\ inet /\ config.enable_cloud_asr)
           /\ decision.reason \in Reasons
           /\ ~inet => decision.reason = "no_internet"
           /\ (inet /\ ~low /\ ~high) => decision.reason = "edge_sufficient"
           /\ (inet /\ (low \/ high) /\ ~config.enable_cloud_asr) =>
                  decision.reason = "cloud_disabled"
           /\ (inet /\ config.enable_cloud_asr /\ low /\ high) =>
                  decision.reason = "low_confidence_and_high_noise"
           /\ (inet /\ config.enable_cloud_asr /\ low /\ ~high) =>
                  decision.reason = "low_confidence"
           /\ (inet /\ config.enable_cloud_asr /\ ~low /\ high) =>
                  decision.reason = "high_noise"

\* a decision at the confidence cut-off itself, with noise at its cut-off
C3_Witness ==
    /\ Decided
    /\ decision.confidence = 75
    /\ decision.noise_score = 60
    /\ decision.internet_available
    /\ decision.reason = "edge_sufficient"
    /\ ~decision.use_cloud

\* C4: low_conf and high_noise are evaluated against the configured
\* thresholds: with connectivity and cloud enabled, a chunk is routed iff
\* confidence < confidence_threshold or noise_score > noise_threshold, for
\* every configured pair.
C4_ConfiguredThresholds ==
    (Decided /\ decision.internet_available /\ config.enable_cloud_asr) =>
        LET low == decision.confidence < config.min_confidence_threshold
            high == decision.noise_score > config.noise_threshold
        IN /\ decision.use_cloud = (low \/ high)
           /\ (low /\ high) => decision.reason = "low_confidence_and_high_noise"
           /\ (low /\ ~high) => decision.reason = "low_confidence"
           /\ (~low /\ high) => decision.reason = "high_noise"
           /\ (~low /\ ~high) => decision.reason = "edge_sufficient"

(* --------------------------- chunker claims ---------------------------- *)

AllFullChunks(chunks) == \A i \in 1..Len(chunks) : Len(chunks[i]) = ChunkSize

\* C5: frames of any lengths pushed to a fresh chunker, totalling exactly
\* k * chunk_size samples, have together returned exactly k chunks of
\* chunk_size samples each, whose concatenation is the frames in order.
C5_ExactMultipleReturnsKChunks ==
    (flushes = 0 /\ pushed % ChunkSize = 0) =>
        /\ lastOp.returned
        /\ Len(outChunks) = pushed \div ChunkSize
        /\ AllFullChunks(outChunks)
        /\ Flatten(outChunks) = Samples(0, pushed)

\* C6: one push of a frame of m samples onto a backlog of b samples returns
\* exactly floor((b + m) / chunk_size) chunks of chunk_size samples each and
\* leaves (b + m) mod chunk_size samples in the backlog.
C6_PushReturnsFloorChunks ==
    lastOp.op = "push" =>
        /\ lastOp.returned
        /\ Len(lastOp.ret) = (lastOp.backlog + lastOp.len) \div ChunkSize
        /\ AllFullChunks(lastOp.ret)
        /\ buffered_samples = (lastOp.backlog + lastOp.len) % ChunkSize

\* C7: what the pushes and the flush have returned, followed by what the
\* buffer still holds, is exactly the pushed samples in order (nothing is
\* dropped, duplicated or reordered); once flushed, the returned chunks alone
\* are the pushed samples; and buffered_samples is the number of samples the
\* buffer holds.
C7_SamplesConserved ==
    /\ Flatten(outChunks) \o Flatten(buffer) = Samples(0, pushed)
    /\ buffered_samples = Len(Flatten(buffer))
    /\ lastOp.op = "flush" => Flatten(outChunks) = Samples(0, pushed)

\* a flush that returned a remainder after pushes that returned a chunk
C7_Witness ==
    /\ lastOp.op = "flush"
    /\ lastOp.ret # <<>>
    /\ Len(outChunks) >= 2
    /\ pushes >= 2
    /\ flushes = 1

\* C8: flush on a backlog of r > 0 samples returns exactly those r samples in
\* order and clears the backlog; a flush right after a flush, and a flush on
\* an empty backlog, returns nothing.
C8_FlushReturnsRemainderOnce ==
    lastOp.op = "flush" =>
        /\ buffered_samples = 0
        /\ lastOp.backlog > 0 =>
              /\ lastOp.ret = <<Samples(pushed - lastOp.backlog, lastOp.backlog)>>
              /\ buffer = <<>>
        /\ lastOp.backlog = 0 => lastOp.ret = <<>>
        /\ lastOp.after = "flush" => lastOp.ret = <<>>

\* the second of two flushes in a row, the first of which had a remainder
C8_Witness ==
    /\ lastOp.op = "flush"
    /\ lastOp.after = "flush"
    /\ pushed % ChunkSize # 0
    /\ lastOp.ret = <<>>

(* ---------------------------- merger claims ---------------------------- *)

\* the caption the k-th merge_captions call of the run produced
Produced(k) ==
    Stamped(MergeCaptions(merge_arg.edge_text, merge_arg.edge_confidence,
                          merge_arg.cloud_text, merge_arg.cloud_confidence,
                          merge_arg.noise_score), k)

C12_HistoryBounded ==
    LET n == merges
        len == IF n < 100 THEN n ELSE 100
    IN /\ Len(history) = len
       /\ Len(history) <= 100
       /\ \A i \in 1..Len(history) : history[i] = Produced(n - len + i)
       /\ n >= 1 => current_caption = Produced(n)
       /\ n = 0 => current_caption = NoCaption

\* more calls than the history holds: the oldest captions are gone
C12_Witness ==
    /\ merges > 100
    /\ Len(history) = 100
    /\ history[1].timestamp = merges - 99
    /\ history[100].timestamp = merges
    /\ current_caption.timestamp = merges

(* ----------------------------- sink claims ----------------------------- *)

\* C18: a send that fails removes only the connection it failed for; every
\* connection that was there when broadcast_caption was called and is still
\* sound has the caption once the call ends; the call never raises.
C18_FailedSubscriberEvictedAlone ==
    /\ \A w \in Sockets : sock[w] = "open" => w \in active_connections
    /\ \A k \in 1..Len(bcasts) :
          /\ ~bcasts[k].raised
          /\ \A w \in bcasts[k].disconnected : sock[w] \in {"broken", "gone", "raised"}
          /\ bcasts[k].pc = "done" =>
                /\ \A w \in bcasts[k].atBegin : sock[w] = "open" => k \in received[w]
                /\ bcasts[k].disconnected \cap active_connections = {}

\* a broadcast that ended with one connection evicted and the other served
C18_Witness ==
    \E k \in 1..Len(bcasts), v, w \in Sockets :
        /\ bcasts[k].pc = "done"
        /\ bcasts[k].atBegin = {v, w}
        /\ v \in bcasts[k].disconnected
        /\ v \notin active_connections
        /\ w \in active_connections
        /\ k \in received[w]
        /\ k \notin received[v]

(* ---------------------------- control claims --------------------------- *)

\* everything but the response
controlState ==
    <<routerVars, chunkerVars, pipeVars, mergerVars, sinkVars,
      current_session_id, session_count>>

\* C20: a session start while one is active answers session_already_active
\* with the id unchanged; a session end or a history request without a
\* session, a capture start while capturing and a capture stop while not
\* capturing are rejected; none of them changes the state. An accepted end
\* leaves no session, and an accepted start gives an id never given before.
C20_MisuseRejected ==
    [][/\ (response'.endpoint = "session/start" /\ current_session_id # 0) =>
             /\ response'.status = "session_already_active"
             /\ response'.session_id = current_session_id
             /\ UNCHANGED controlState
       /\ (response'.endpoint = "session/start" /\ current_session_id = 0) =>
             /\ response'.status = "session_started"
             /\ current_session_id' = response'.session_id
             /\ current_session_id' > session_count
             /\ session_count' = current_session_id'
       /\ (response'.endpoint = "session/end" /\ current_session_id = 0) =>
             /\ response' = Rejected("session/end", "No active session")
             /\ UNCHANGED controlState
       /\ (response'.endpoint = "session/end" /\ current_session_id # 0) =>
             /\ response'.status = "session_ended"
             /\ current_session_id' = 0
       /\ (response'.endpoint = "captions/history" /\ current_session_id = 0) =>
             /\ response' = Rejected("captions/history", "No active session")
             /\ UNCHANGED controlState
       /\ (response'.endpoint = "capture/start" /\ is_capturing) =>
             /\ response'.status = "400"
             /\ UNCHANGED controlState
       /\ (response'.endpoint = "capture/stop" /\ ~is_capturing) =>
             /\ response'.status = "400"
             /\ UNCHANGED controlState]_vars

\* a start refused for the second session of the run, started after the first
\* one was ended
C20_Witness ==
    /\ response.endpoint = "session/start"
    /\ response.status = "session_already_active"
    /\ response.session_id = 2
    /\ current_session_id = 2
    /\ session_count = 2

(* --------------------------- counter claims ---------------------------- *)

\* C21: total_chunks = edge_only + routed_to_cloud and no_internet <= edge_only
\* in every state, and a decision adds one to total_chunks and one to exactly
\* one of edge_only and routed_to_cloud.
C21_CountersPartitionChunks ==
    /\ [](/\ stats.total_chunks = stats.edge_only + stats.routed_to_cloud
          /\ stats.no_internet <= stats.edge_only)
    /\ [][stats'.total_chunks > stats.total_chunks =>
             /\ stats'.total_chunks = stats.total_chunks + 1
             /\ stats'.edge_only >= stats.edge_only
             /\ stats'.routed_to_cloud >= stats.routed_to_cloud
             /\ (stats'.edge_only - stats.edge_only)
                   + (stats'.routed_to_cloud - stats.routed_to_cloud) = 1]_vars

\* a routed chunk and one kept on the edge for want of a connection
C21_Witness ==
    /\ stats.total_chunks = 2
    /\ stats.routed_to_cloud = 1
    /\ stats.edge_only = 1
    /\ stats.no_internet = 1

\* C22: cloud_timeout <= cloud_failed in every state, and a recorded timeout
\* adds one to cloud_timeout and to cloud_failed and nothing to
\* cloud_succeeded, whatever `success` was.
C22_TimeoutImpliesFailure ==
    /\ [](stats.cloud_timeout <= stats.cloud_failed)
    /\ [][stats'.cloud_timeout > stats.cloud_timeout =>
             /\ stats'.cloud_timeout = stats.cloud_timeout + 1
             /\ stats'.cloud_failed = stats.cloud_failed + 1
             /\ stats'.cloud_succeeded = stats.cloud_succeeded]_vars

\* a timeout and a failure of another kind
C22_Witness ==
    /\ stats.cloud_timeout = 1
    /\ stats.cloud_failed = 2
    /\ stats.cloud_succeeded = 0

\* C23: whenever a counter goes down all of them are 0 afterwards, and a
\* get_stats that finds total_chunks = 0 reports the three derived figures
\* as 0, whatever the other counters hold.
C23_ResetAndEmptyStats ==
    /\ []((/\ response.endpoint = "stats"
           /\ response.router_stats.counters.total_chunks = 0) =>
              /\ response.router_stats.edge_percentage = 0
              /\ response.router_stats.cloud_percentage = 0
              /\ response.router_stats.cloud_success_rate = 0)
    /\ [][(\E k \in DOMAIN stats : stats'[k] < stats[k]) =>
             stats' = ZeroStats]_vars

\* statistics read after a reset and after the outcome of a cloud call
\* dispatched before the reset was recorded
C23_Witness ==
    /\ response.endpoint = "stats"
    /\ response.router_stats.counters.total_chunks = 0
    /\ response.router_stats.counters.cloud_succeeded = 1
    /\ response.router_stats.cloud_success_rate = 0
    /\ decision.reason # "none"

(* ---------------------------- scorer claims ---------------------------- *)

\* C24: estimate_confidence with an empty or blank text returns 0 and leaves
\* the history as it was, so that the history only ever holds what calls
\* with a text put there and the next such call is scored against those.
C24_BlankTextLeavesHistory ==
    /\ [](\A i \in 1..Len(confidence_history) :
             \E arg \in ConfidenceInputs :
                 /\ ~Blank(arg.text)
                 /\ confidence_history[i] = AdjustedConfidence(arg))
    /\ [][(confidence_calls' = confidence_calls + 1
              /\ Blank(confidence_arg'.text)) =>
             /\ confidence_out' = 0
             /\ confidence_history' = confidence_history]_vars

\* a blank text scored 0 between calls with a text
C24_Witness ==
    /\ confidence_arg.text = " "
    /\ confidence_out = 0
    /\ Len(confidence_history) = 2
    /\ confidence_calls = 3

\* C25: of two consecutive calls with a text, the second returns
\* clamp(0.3 * adjusted + 0.7 * score returned by the first), and what it
\* leaves at the end of the history is the score it returns.
C25_SmoothingUsesReturnedScore ==
    [][(/\ confidence_calls' = confidence_calls + 1
        /\ confidence_calls > 0
        /\ ~Blank(confidence_arg.text)
        /\ ~Blank(confidence_arg'.text)) =>
          /\ confidence_out' =
                Clamp((3 * AdjustedConfidence(confidence_arg')
                         + 7 * confidence_out) \div 10)
          /\ confidence_history'[Len(confidence_history')] =
                confidence_out']_vars

\* the chunk of the last estimate_noise call is empty or all zeros
ZeroChunk == \A i \in 1..Len(noise_arg) : noise_arg[i] = 0

\* its RMS and its zero-crossing rate are both over their thresholds
LoudChunk ==
    /\ ComputeRms(noise_arg) > RmsThreshold
    /\ ComputeZcr(noise_arg) > ZcrThreshold

HasBaseline == baseline_rms # NoBaseline /\ baseline_zcr # NoBaseline

\* C26 as stated: an all-zero or empty chunk scores 0 after any history.
C26_ZeroChunkScoresZero ==
    (noise_calls > 0 /\ ZeroChunk) => noise_out = 0

\* C26: an all-zero or empty chunk scores 0 as long as there is no baseline
\* or both baselines are 0; against a baseline RMS above 0 it scores more.
C26_ZeroChunkScoresZeroAtZeroBaseline ==
    (noise_calls > 0 /\ ZeroChunk) =>
        /\ (~HasBaseline \/ (baseline_rms = 0 /\ baseline_zcr = 0)) =>
              noise_out = 0
        /\ (HasBaseline /\ baseline_rms > 0) => noise_out > 0

\* an all-zero chunk scored 0 against a baseline of 0, with louder chunks
\* still in the window
C26_Witness ==
    /\ noise_arg = <<0, 0, 0, 0>>
    /\ noise_out = 0
    /\ HasBaseline
    /\ baseline_rms = 0
    /\ \E i \in 1..Len(rms_history) : rms_history[i] > RmsThreshold

\* C27 as stated: no score is over 1.0, and a chunk whose RMS and ZCR are
\* both over their thresholds scores 1.0 after any history.
C27_LoudChunkScoresOne ==
    /\ noise_out <= One
    /\ (noise_calls > 0 /\ LoudChunk) => noise_out = One

\* C27: no score is over 1.0; a chunk whose RMS and ZCR are both over their
\* thresholds scores 1.0 while there is no baseline, at least 0.7 once there
\* is one, and 0.7 when it equals the baseline.
C27_LoudChunkScoresOneWithoutBaseline ==
    /\ noise_out <= One
    /\ (noise_calls > 0 /\ LoudChunk) =>
          /\ ~HasBaseline => noise_out = One
          /\ HasBaseline => noise_out >= 7000
          /\ (/\ baseline_rms = ComputeRms(noise_arg)
              /\ baseline_zcr = ComputeZcr(noise_arg)) => noise_out = 7000

\* the fourth chunk of a loud run, scored before any baseline exists
C27_Witness ==
    /\ LoudChunk
    /\ noise_calls = 4
    /\ ~HasBaseline
    /\ noise_out = One
    /\ \A i \in 1..Len(rms_history) : rms_history[i] > RmsThreshold

(* ------------------------- concurrency claims -------------------------- *)

Done == {q \in Seqs : tasks[q].pc = "done"}

\* C28: the Router's counters, the merger's history and the connectivity flag
\* are written by one task at a time, so no increment and no append is lost:
\* the counters count exactly the chunks decided, routed and answered, the
\* history holds one caption for each chunk fused, and a write of the flag is
\* a step of the poller alone.
C28_NoLostUpdate ==
    /\ [](/\ stats.total_chunks = Cardinality(Started)
          /\ stats.routed_to_cloud =
                Cardinality({q \in Started : tasks[q].use_cloud})
          /\ stats.edge_only =
                Cardinality({q \in Started : ~tasks[q].use_cloud})
          /\ stats.cloud_succeeded =
                Cardinality({q \in Seqs : tasks[q].outcome = "ok"})
          /\ stats.cloud_failed =
                Cardinality({q \in Seqs : tasks[q].outcome \in FailedOutcomes})
          /\ Len(history) = Cardinality(Done)
          /\ \A q \in Done : \E i \in 1..Len(history) :
                history[i] = tasks[q].caption)
    /\ [][internet_available' # internet_available =>
             UNCHANGED <<tasks, stats, history, current_caption, delivered>>]_vars

\* two chunks in flight together, the second fused before the first, with
\* the poller's write in between: both are counted and both are in history
C28_Witness ==
    /\ Len(tasks) = 2
    /\ Done = {1, 2}
    /\ tasks[1].outcome = "ok"
    /\ ~tasks[2].use_cloud
    /\ stats.no_internet = 1
    /\ history = <<tasks[2].caption, tasks[1].caption>>
    /\ tasks[1].caption # tasks[2].caption
    /\ stats.total_chunks = 2

\* a step in which decide_routing has run
DecisionStep == stats'.total_chunks = stats.total_chunks + 1

\* C29: the Router decides on the last value the poller left in the flag and
\* never probes itself; while that value is False every decision is
\* use_cloud = False with reason no_internet and no cloud call is
\* dispatched; a failing probe only lowers the flag, and the poller goes on
\* probing after it.
C29_LastKnownConnectivityFailsClosed ==
    /\ []((~internet_available /\ ~LoopBusy) => ENABLED CheckInternet(TRUE))
    /\ [][DecisionStep =>
             /\ internet_available' = internet_available
             /\ decision'.internet_available = internet_available
             /\ ~internet_available =>
                   /\ ~decision'.use_cloud
                   /\ decision'.reason = "no_internet"
                   /\ stats'.no_internet = stats.no_internet + 1
                   /\ stats'.routed_to_cloud = stats.routed_to_cloud
                   /\ \A q \in 1..Len(tasks') :
                         tasks'[q].pc = "cloud" =>
                             (q \in Seqs /\ tasks[q].pc = "cloud")]_vars
    /\ [][(internet_available /\ ~internet_available') =>
             UNCHANGED <<tasks, readyq, stats, decision, history,
                         current_caption, delivered, is_capturing,
                         stop_pc>>]_vars

\* a chunk of low confidence decided after a failed probe, with cloud ASR
\* enabled and its client there: kept on the edge for no_internet
C29_Witness ==
    /\ ~internet_available
    /\ config.enable_cloud_asr
    /\ cloud_client
    /\ decision.reason = "no_internet"
    /\ decision.confidence = 50
    /\ \E q \in Done : tasks[q].confidence = 50 /\ ~tasks[q].use_cloud
    /\ stats.no_internet = 1

\* a step in which stop_capture has turned capture off
StopStep == is_capturing /\ ~is_capturing'

\* C30: stop_capture with samples in the chunker's backlog makes exactly one
\* more chunk, of exactly those samples, and runs it through scoring and
\* routing (total_chunks one higher) like any other chunk; with an empty
\* backlog it makes none.
C30_StopFlushesBacklog ==
    [][StopStep =>
          IF buffered_samples > 0
          THEN /\ Len(tasks') = Len(tasks) + 1
               /\ \A q \in Seqs : tasks'[q] = tasks[q]
               /\ tasks'[Len(tasks')].pc \in {"cloud", "jargon", "done"}
               /\ DecisionStep
               /\ Flush(buffer, buffered_samples).ret = <<Flatten(buffer)>>
               /\ buffer' = <<>>
               /\ buffered_samples' = 0
          ELSE /\ tasks' = tasks
               /\ stats' = stats]_vars

(* --------------------------- data-model claims ------------------------- *)

\* C31: every caption produced carries the sequence number of the chunk it
\* was derived from, the chunks being numbered 1, 2, 3, ... in the order the
\* chunker produced them.
C31_CaptionCarriesSequence ==
    \A q \in Done :
        /\ "sequence" \in DOMAIN tasks[q].caption
        /\ tasks[q].caption.sequence = q

\* C32: add_audio returns for every frame length and every backlog: it is
\* never left spinning in its loop.
C32_PushTerminates == ~hung

(* ---------------------------- outcome claims --------------------------- *)

\* the chunks whose cloud call is still in flight
InFlight == {q \in Seqs : tasks[q].pc = "cloud"}

\* C34: each chunk routed to the cloud has one outcome recorded, at most:
\* cloud_succeeded + cloud_failed never exceeds routed_to_cloud and equals it
\* when no cloud call is in flight; a chunk recorded as succeeded is not
\* recorded as failed as well, not even when the save of its jargon pair
\* fails.
C34_OneOutcomePerRoutedChunk ==
    /\ stats.cloud_succeeded + stats.cloud_failed <= stats.routed_to_cloud
    /\ InFlight = {} =>
          stats.cloud_succeeded + stats.cloud_failed = stats.routed_to_cloud
    /\ stats.cloud_succeeded + stats.cloud_failed + Cardinality(InFlight) =
          stats.routed_to_cloud
    /\ stats.cloud_failed =
          Cardinality({q \in Seqs : tasks[q].outcome \in FailedOutcomes})

\* a chunk whose cloud result was the better one and whose jargon pair could
\* not be saved: fused, counted as one success and no failure
C34_Witness ==
    \E q \in Done :
        /\ tasks[q].outcome = "ok"
        /\ tasks[q].cloud.conf > tasks[q].edge.conf
        /\ ~tasks[q].jargon_saved
        /\ stats.routed_to_cloud = 1
        /\ stats.cloud_succeeded = 1
        /\ stats.cloud_failed = 0

(* --------------------------- liveness claims --------------------------- *)

\* C33: under a fair event loop, with every cloud call ending, every chunk
\* handed to process_audio_chunk is fused in the end, and fused once: a task
\* that has fused stays as it is, and the merger has taken one caption for
\* each task that has fused.
C33_EveryChunkFusedOnce ==
    /\ \A q \in 1..MaxChunks : 
          (Len(tasks) >= q) ~> (Len(tasks) >= q /\ tasks[q].pc = "done")
    /\ [](Len(history) = Cardinality(Done))
    /\ [][\A q \in Done : tasks'[q] = tasks[q]]_vars

\* every chunk of the run fused, one of them after a cloud call and the
\* jargon write, another one after a cloud call that timed out
C33_Witness ==
    /\ Len(tasks) = MaxChunks
    /\ Done = Seqs
    /\ Len(history) = MaxChunks
    /\ \E q \in Seqs : tasks[q].jargon_saved
    /\ \E q \in Seqs : tasks[q].outcome = "timeout"
    /\ ~is_capturing
    /\ stop_pc = "idle"

(* -------------------------- determinism claims ------------------------- *)

\* C35: a routing decision depends on its inputs alone: whatever the
\* Router's counters and whatever it decided before, it returns the
\* use_cloud and the reason that a Router with fresh counters returns for
\* the same confidence, noise score, connectivity and cloud setting.
C35_DecisionDependsOnInputsOnly ==
    [][DecisionStep =>
          LET fresh == DecideRouting(ZeroStats, config, decision'.confidence,
                                     decision'.noise_score,
                                     decision'.internet_available).decision
          IN /\ decision'.use_cloud = fresh.use_cloud
             /\ decision'.reason = fresh.reason
             /\ config' = config]_vars

\* a confident, quiet chunk kept on the edge by a Router that has routed an
\* earlier chunk to the cloud
C35_Witness ==
    /\ decision.reason = "edge_sufficient"
    /\ decision.internet_available
    /\ config.enable_cloud_asr
    /\ stats.routed_to_cloud = 1
    /\ stats.edge_only = 1

(* ------------------------- scorer window claims ------------------------ *)

\* the last n entries of s
LastN(s, n) == IF Len(s) <= n THEN s ELSE SubSeq(s, Len(s) - n + 1, Len(s))

\* C36: the histories of the two estimators never hold more than 10 entries,
\* each new entry goes in at the end and the oldest one leaves once there
\* are more than 10; the RMS and ZCR histories are equally long; every score
\* returned is within [0, 1].
C36_ScorerWindowsAndRanges ==
    /\ [](/\ Len(confidence_history) <= 10
          /\ Len(rms_history) <= 10
          /\ Len(zcr_history) = Len(rms_history)
          /\ noise_out >= 0 /\ noise_out <= One
          /\ confidence_out >= 0 /\ confidence_out <= One)
    /\ [][noise_calls' # noise_calls =>
             /\ rms_history' =
                   LastN(Append(rms_history, ComputeRms(noise_arg')), 10)
             /\ zcr_history' =
                   LastN(Append(zcr_history, ComputeZcr(noise_arg')), 10)]_vars
    /\ [][confidence_history' # confidence_history =>
             confidence_history' =
                 LastN(Append(confidence_history,
                              AdjustedConfidence(confidence_arg')), 10)]_vars

\* the eleventh chunk scored, none of them blank: both estimators have
\* dropped their oldest entry
C36_Witness ==
    /\ noise_calls = 11
    /\ Len(rms_history) = 10
    /\ Len(confidence_history) = 10
    /\ \A i \in 1..10 : rms_history[i] \in {0, 1000}
    /\ \E i, j \in 1..10 : rms_history[i] # rms_history[j]
    /\ noise_arg # <<100, 100, 100, 100>>

(* ------------------------- capture-thread claims ----------------------- *)

\* C37: once stop_capture has returned and the capture callback that was
\* running when it began has ended, the chunker's backlog is empty: no frame
\* in the buffer, buffered_samples = 0.
C37_BacklogEmptyAfterStop ==
    (~is_capturing /\ stop_pc = "idle" /\ callback_pc = "idle") =>
        /\ buffer = <<>>
        /\ buffered_samples = 0

(* -------------------------- subscriber claims -------------------------- *)

\* C38: a disconnect handler never ends by raising: when a failed delivery
\* has already evicted the subscriber, the handler of its connection
\* completes normally and leaves the subscriber set as it was.
C38_DisconnectAfterEvictionIsSafe ==
    \A w \in Sockets : sock[w] # "raised"

(* --------------------------- session claims ---------------------------- *)

\* C39: a caption whose chunk was captured while a session was active is
\* persisted under that session only: the session id its save was given is
\* the one that was current at capture, also when that session has ended and
\* another has started while the chunk's task was suspended.
C39_PersistedUnderCaptureSession ==
    \A k \in persisted :
        captured_under[k] # 0 => bcasts[k].session = captured_under[k]

(* --------------------------- history claims ---------------------------- *)

\* C40: get_history(limit) returns, for every limit >= 0, the most recent
\* min(limit, length of the history) captions in the order they were
\* produced: never more than limit of them, and none for limit = 0.
C40_GetHistoryReturnsMostRecent ==
    [][history_out' # history_out =>
          history_out'.captions = LastN(history, history_out'.limit)]_vars

====
